---- MODULE Spec2Model ----
(***************************************************************************)
(* Graph data model and editing engine of the UML/ER diagram editor:       *)
(* the diagram store (store/diagramStore), the canvas controller           *)
(* (DiagramCanvas) and the chat panel's history reconciler (ChatPanel).    *)
(*                                                                         *)
(* JavaScript values are modelled as follows.  A string is a TLA+ string.  *)
(* An object is a function from its own keys to values, so a missing key   *)
(* and a present key are different things and { ...a, ...b } is Merge.     *)
(* undefined / null is the reserved value Undefined; the ?? operator       *)
(* treats both alike, so one value stands for both.  An array is a         *)
(* sequence.  A nullable React state holding an object is a sequence of    *)
(* length at most one.                                                     *)
(***************************************************************************)
EXTENDS Integers, Sequences, FiniteSets, TLC

VARIABLES
    nodes,                      \* diagramStore.nodes
    edges,                      \* diagramStore.edges
    selectedRelationshipKind,   \* diagramStore tool selection
    selectedSourceMult,
    selectedTargetMult,
    editingNode,                \* DiagramCanvas edit buffer (<<>> = null)
    isEditorOpen,
    editingEdge,
    isRelationshipEditorOpen,
    now,                        \* the wall clock read by Date.now()
    prompt,                     \* ChatPanel state
    isLoading,
    error,
    history,
    isHistoryLoading,
    historyError,
    activeHistoryId,            \* the state and the ref mirroring it (0 = null)
    deletingId,                 \* the entry whose delete is in progress (0 = null)
    isClearingHistory,
    requests,                   \* the panel's HTTP requests in flight, with what each handler captured
    lastOutcome,                \* what the last successful generation / vision response did (observer)
    serverHistory,              \* the history list kept by the service, newest first
    serverNextId,               \* the next history id the service assigns
    normInput,                  \* the relationship handed to the normalizer
    normEdge,                   \* the normalizer's latest result
    normCalls,                  \* how many times the normalizer has run on it
    identLabel,                 \* the endpoint label handed to toIdentifier
    identResult,                \* the fragment toIdentifier returned for it
    fallbackPrompt,             \* the prompt handed to buildFallbackDiagram
    fallbackResult,             \* what each call of it returned, in call order
    token,                      \* useAuthStore.token (<<>> = null)
    user,                       \* useAuthStore.user (<<>> = null)
    isAuthenticated,            \* useAuthStore.isAuthenticated
    authorization,              \* api.defaults.headers.common["Authorization"] (<<>> = not set)
    authRequests,               \* login / register calls in flight
    authError                   \* what the last login, register or setFromResponse threw

storeVars == <<nodes, edges, selectedRelationshipKind, selectedSourceMult, selectedTargetMult>>
canvasVars == <<editingNode, isEditorOpen, editingEdge, isRelationshipEditorOpen>>
adminVars == <<deletingId, isClearingHistory>>
chatVars == <<prompt, isLoading, error, history, isHistoryLoading, historyError, activeHistoryId,
              adminVars, requests, lastOutcome, serverHistory, serverNextId>>
normVars == <<normInput, normEdge, normCalls>>
identVars == <<identLabel, identResult>>
fallbackVars == <<fallbackPrompt, fallbackResult>>
sessionVars == <<token, user, isAuthenticated>>
authVars == <<sessionVars, authorization, authRequests, authError>>
outsideCanvas == <<chatVars, normVars, identVars, fallbackVars, authVars>>
vars == <<storeVars, canvasVars, now, chatVars, normVars, identVars, fallbackVars, authVars>>

----------------------------------------------------------------------------
(* Bounds *)

MaxNow == 2          \* Date.now() takes the values 1..MaxNow
MaxNodes == 3        \* a gesture is enabled if it leaves at most this many entities
MaxEdges == 2        \* a gesture is enabled if it leaves at most this many relationships
MaxIdLen == 1        \* a gesture starts and ends at entities whose id is at most this long
MaxKinds == 2        \* how many of the tool kinds the toolbar offers in the model
MaxMults == 2        \* how many of the multiplicities the toolbar offers in the model
MaxColumns == 2      \* the table editor adds a column below this many columns
MaxNodeList == 2     \* longest entity list a caller passes to a store operation
MaxEdgeList == 2     \* longest relationship list a caller passes to a store operation
MaxHistory == 2      \* the service assigns the history ids 1..MaxHistory
MaxRequests == 1     \* the chat panel has at most this many HTTP requests in flight
MaxHistoryRequests == 2  \* ... and at most this many while the user manages the history list
MaxNormCalls == 2    \* the normalizer runs at most this many times on one relationship
MaxLabelLen == 3     \* longest endpoint label drawn from the label alphabet
MaxPromptWords == 2  \* most words in a prompt handed to the fallback generator
MaxFallbackCalls == 2 \* most calls of the fallback generator on one prompt
MaxOverlap == 2      \* most requests in flight at once in the generation specification
MaxAuthRequests == 2  \* login / register calls in flight at once

----------------------------------------------------------------------------
(* JavaScript object helpers *)

Undefined == "<undefined>"

EmptyObject == [k \in {} |-> Undefined]

\* o.k, which is undefined for a missing key
Get(o, k) == IF k \in DOMAIN o THEN o[k] ELSE Undefined

\* (o.k ?? d) for a string-valued key
Coalesce(o, k, d) == IF k \in DOMAIN o /\ o[k] # Undefined THEN o[k] ELSE d

\* { ...a, ...b }
Merge(a, b) == [k \in (DOMAIN a) \cup (DOMAIN b) |-> IF k \in DOMAIN b THEN b[k] ELSE a[k]]

\* array.map(f)
Map(s, f(_)) == [i \in 1..Len(s) |-> f(s[i])]

\* Map.set(key, value) on an insertion-ordered Map kept as the sequence of its values
MapIndex(m, key) == IF \E i \in 1..Len(m) : Get(m[i], "id") = key
                    THEN CHOOSE i \in 1..Len(m) : Get(m[i], "id") = key
                    ELSE 0

MapSet(m, key, value) == IF MapIndex(m, key) = 0
                         THEN Append(m, value)
                         ELSE [m EXCEPT ![MapIndex(m, key)] = value]

\* new Map(); for (const x of list) next.set(x.id, x)
RECURSIVE MapFrom(_, _)
MapFrom(m, list) == IF list = <<>> THEN m
                    ELSE MapFrom(MapSet(m, Get(Head(list), "id"), Head(list)), Tail(list))

Ids(s) == {Get(s[i], "id") : i \in 1..Len(s)}

----------------------------------------------------------------------------
(* types.ts *)

RelationshipKinds == <<"segmentada", "simple", "flechaBlanca", "flechaNegra">>
Multiplicities == <<"*", "1", "0..1", "1..*", "0..*">>

Min(a, b) == IF a < b THEN a ELSE b

ToolKinds == {RelationshipKinds[i] : i \in 1..Min(MaxKinds, Len(RelationshipKinds))}
ToolMults == {Multiplicities[i] : i \in 1..Min(MaxMults, Len(Multiplicities))}

----------------------------------------------------------------------------
(* store/diagramStore: the edge normalizer *)

KIND_FALLBACK == "simple"

\* variant: a guard that does not know "flechaNegra"
isRelationshipKind_mut(value) ==
    value = "simple" \/ value = "flechaBlanca" \/ value = "segmentada"

isRelationshipKind(value) ==
    value = "simple" \/ value = "flechaBlanca" \/ value = "flechaNegra" \/ value = "segmentada"

\* variant: the two multiplicity defaults read each other's field
normalizeEdge_mut(edge) ==
    LET data == IF "data" \in DOMAIN edge THEN edge.data ELSE EmptyObject
        kind == IF isRelationshipKind(Get(data, "kind")) THEN data.kind ELSE KIND_FALLBACK
    IN Merge(edge,
             [data |-> Merge(data,
                 [id         |-> Coalesce(data, "id", Get(edge, "id")),
                  source     |-> Coalesce(data, "source", Get(edge, "source")),
                  target     |-> Coalesce(data, "target", Get(edge, "target")),
                  kind       |-> kind,
                  sourceMult |-> Coalesce(data, "targetMult", "1"),
                  targetMult |-> Coalesce(data, "sourceMult", "*"),
                  label      |-> Coalesce(data, "label", "")])])

normalizeEdge(edge) ==
    LET data == IF "data" \in DOMAIN edge THEN edge.data ELSE EmptyObject
        kind == IF isRelationshipKind(Get(data, "kind")) THEN data.kind ELSE KIND_FALLBACK
    IN Merge(edge,
             [data |-> Merge(data,
                 [id         |-> Coalesce(data, "id", Get(edge, "id")),
                  source     |-> Coalesce(data, "source", Get(edge, "source")),
                  target     |-> Coalesce(data, "target", Get(edge, "target")),
                  kind       |-> kind,
                  sourceMult |-> Coalesce(data, "sourceMult", "1"),
                  targetMult |-> Coalesce(data, "targetMult", "*"),
                  label      |-> Coalesce(data, "label", "")])])

----------------------------------------------------------------------------
(* store/diagramStore: the operations.  Each takes the store's graph and    *)
(* returns the graph after the set() call.                                  *)

Graph(ns, es) == [nodes |-> ns, edges |-> es]

\* variant: the relationships held are kept in front of the new ones
setGraph_mut(st, graph) == Graph(graph.nodes, st.edges \o Map(graph.edges, normalizeEdge))

setGraph(st, graph) == Graph(graph.nodes, Map(graph.edges, normalizeEdge))

resetGraph(st) == Graph(<<>>, <<>>)

setNodes(st, ns) == Graph(ns, st.edges)

setEdges(st, es) == Graph(st.nodes, Map(es, normalizeEdge))

\* variant: an incoming entity replaces the entity it finds
RECURSIVE addNodesLoop_mut(_, _)
addNodesLoop_mut(next, incoming) ==
    IF incoming = <<>> THEN next
    ELSE LET node == Head(incoming)
         IN addNodesLoop_mut(MapSet(next, Get(node, "id"), node), Tail(incoming))

RECURSIVE addNodesLoop(_, _)
addNodesLoop(next, incoming) ==
    IF incoming = <<>> THEN next
    ELSE LET node == Head(incoming)
             i == MapIndex(next, Get(node, "id"))
             old == IF i = 0 THEN EmptyObject ELSE next[i]
         IN addNodesLoop(MapSet(next, Get(node, "id"), Merge(old, node)), Tail(incoming))

\* variant: the incoming entities are put after the entities held
addNodes_mut(st, incoming) == Graph(st.nodes \o incoming, st.edges)

addNodes(st, incoming) == Graph(addNodesLoop(MapFrom(<<>>, st.nodes), incoming), st.edges)

RECURSIVE addEdgesLoop(_, _)
addEdgesLoop(next, incoming) ==
    IF incoming = <<>> THEN next
    ELSE LET edge == Head(incoming)
             i == MapIndex(next, Get(edge, "id"))
         IN addEdgesLoop(MapSet(next, Get(edge, "id"),
                                IF i # 0 THEN Merge(next[i], edge) ELSE edge),
                         Tail(incoming))

addEdges(st, incoming) ==
    Graph(st.nodes, Map(addEdgesLoop(MapFrom(<<>>, st.edges), incoming), normalizeEdge))

updateNode(st, nodeId, updates) ==
    LET f(node) == IF Get(node, "id") = nodeId THEN Merge(node, updates) ELSE node
    IN Graph(Map(st.nodes, f), st.edges)

updateNodeData(st, nodeId, data) ==
    LET f(node) == IF Get(node, "id") = nodeId THEN Merge(node, [data |-> data]) ELSE node
    IN Graph(Map(st.nodes, f), st.edges)

\* variant: the cascade looks at the source side only
removeNode_mut(st, nodeId) ==
    LET keepNode(node) == Get(node, "id") # nodeId
        keepEdge(edge) == Get(edge, "source") # nodeId
    IN Graph(SelectSeq(st.nodes, keepNode), SelectSeq(st.edges, keepEdge))

removeNode(st, nodeId) ==
    LET keepNode(node) == Get(node, "id") # nodeId
        keepEdge(edge) == Get(edge, "source") # nodeId /\ Get(edge, "target") # nodeId
    IN Graph(SelectSeq(st.nodes, keepNode), SelectSeq(st.edges, keepEdge))

\* variant: the patched relationship is stored as merged
updateEdge_mut(st, edgeId, updates) ==
    LET f(edge) == IF Get(edge, "id") = edgeId THEN Merge(edge, updates) ELSE edge
    IN Graph(st.nodes, Map(st.edges, f))

updateEdge(st, edgeId, updates) ==
    LET f(edge) == IF Get(edge, "id") = edgeId THEN normalizeEdge(Merge(edge, updates)) ELSE edge
    IN Graph(st.nodes, Map(st.edges, f))

updateEdgeData(st, edgeId, data) ==
    LET f(edge) == IF Get(edge, "id") = edgeId
                   THEN normalizeEdge(Merge(edge,
                            [data |-> Merge(IF "data" \in DOMAIN edge THEN edge.data ELSE EmptyObject,
                                            data)]))
                   ELSE edge
    IN Graph(st.nodes, Map(st.edges, f))

removeEdge(st, edgeId) ==
    LET keepEdge(edge) == Get(edge, "id") # edgeId
    IN Graph(st.nodes, SelectSeq(st.edges, keepEdge))

\* the store's current graph
store == Graph(nodes, edges)

\* set(): publish the graph an operation returned
Set(g) == nodes' = g.nodes /\ edges' = g.edges

----------------------------------------------------------------------------
(* String helpers: JavaScript string methods over TLA+ strings *)

CharAt(s, i) == SubSeq(s, i, i)

UpperLetters == "ABCDEFGHIJKLMNOPQRSTUVWXYZ"
LowerLetters == "abcdefghijklmnopqrstuvwxyz"
Digits == "0123456789"

\* the characters of a string, as a set
CharsOf(alphabet) == {CharAt(alphabet, i) : i \in 1..Len(alphabet)}

IsWhitespace(c) == c = " " \/ c = "\t" \/ c = "\n"

\* String.prototype.toLowerCase, character by character
LowerCaseOf ==
    [c \in CharsOf(UpperLetters) |->
        CharAt(LowerLetters, CHOOSE i \in 1..Len(UpperLetters) : CharAt(UpperLetters, i) = c)]

LowerChar(c) == IF c \in DOMAIN LowerCaseOf THEN LowerCaseOf[c] ELSE c

RECURSIVE toLowerCaseFrom(_, _)
toLowerCaseFrom(s, i) == IF i > Len(s) THEN "" ELSE LowerChar(CharAt(s, i)) \o toLowerCaseFrom(s, i + 1)

toLowerCase(s) == toLowerCaseFrom(s, 1)

\* String.prototype.trim
RECURSIVE trimStart(_)
trimStart(s) == IF Len(s) > 0 /\ IsWhitespace(CharAt(s, 1)) THEN trimStart(SubSeq(s, 2, Len(s))) ELSE s

RECURSIVE trimEnd(_)
trimEnd(s) == IF Len(s) > 0 /\ IsWhitespace(CharAt(s, Len(s))) THEN trimEnd(SubSeq(s, 1, Len(s) - 1)) ELSE s

\* variant: the text is taken as typed
trim_mut(s) == s

trim(s) == trimEnd(trimStart(s))

\* variant: every whitespace character becomes an underscore
RECURSIVE replaceWhitespaceRuns_mut(_, _)
replaceWhitespaceRuns_mut(s, i) ==
    IF i > Len(s) THEN ""
    ELSE (IF IsWhitespace(CharAt(s, i)) THEN "_" ELSE CharAt(s, i)) \o replaceWhitespaceRuns_mut(s, i + 1)

RECURSIVE replaceWhitespaceRuns(_, _)
\* s.replace(/\s+/g, "_") from position i on
replaceWhitespaceRuns(s, i) ==
    IF i > Len(s) THEN ""
    ELSE IF IsWhitespace(CharAt(s, i))
         THEN IF i > 1 /\ IsWhitespace(CharAt(s, i - 1))
              THEN replaceWhitespaceRuns(s, i + 1)
              ELSE "_" \o replaceWhitespaceRuns(s, i + 1)
         ELSE CharAt(s, i) \o replaceWhitespaceRuns(s, i + 1)

\* s.replace(/[^a-z0-9_]/g, "")
IdentifierChars == CharsOf(LowerLetters) \cup CharsOf(Digits) \cup {"_"}

IsIdentifierChar(c) == c \in IdentifierChars

KeepIdentifierChar(c) == IF IsIdentifierChar(c) THEN c ELSE ""

RECURSIVE removeNonIdentifierCharsFrom(_, _)
removeNonIdentifierCharsFrom(s, i) ==
    IF i > Len(s) THEN "" ELSE KeepIdentifierChar(CharAt(s, i)) \o removeNonIdentifierCharsFrom(s, i + 1)

removeNonIdentifierChars(s) == removeNonIdentifierCharsFrom(s, 1)

\* variant: no toLowerCase
toIdentifier_mut(value) ==
    LET r == removeNonIdentifierChars(replaceWhitespaceRuns(trim(value), 1))
    IN IF r = "" THEN "relacion" ELSE r

\* DiagramCanvas.onConnect: toIdentifier
toIdentifier(value) ==
    LET r == removeNonIdentifierChars(replaceWhitespaceRuns(toLowerCase(trim(value)), 1))
    IN IF r = "" THEN "relacion" ELSE r

\* the clock value as Date.now() prints it in a template literal
NowString(t) == ToString(t)

\* array.find(x => x.id === id), as a sequence of length at most one
Find(list, id) == IF \E i \in 1..Len(list) : Get(list[i], "id") = id
                  THEN <<list[CHOOSE i \in 1..Len(list) :
                                /\ Get(list[i], "id") = id
                                /\ \A j \in 1..(i - 1) : Get(list[j], "id") # id]>>
                  ELSE <<>>

Max(a, b) == IF a > b THEN a ELSE b

----------------------------------------------------------------------------
(* DiagramCanvas: construction of entities and relationships *)

Column(id, name, type, pk, nullable) ==
    [id |-> id, name |-> name, type |-> type, pk |-> pk, nullable |-> nullable]

\* a column literal written without the pk field
ColumnNoPk(id, name, type, nullable) ==
    [id |-> id, name |-> name, type |-> type, nullable |-> nullable]

Position(x, y) == [x |-> x, y |-> y]

\* Math.random() in handleCreateNewTable: 120 + r * 320 and 120 + r * 220
RandomXs == {128, 256}
RandomYs == {128}

\* handleCreateNewTable: the node placed in the edit buffer
newTableNode(t, x, y) ==
    LET id == "node-" \o NowString(t)
    IN [id |-> id,
        type |-> "databaseNode",
        position |-> Position(x, y),
        data |-> [label |-> "NuevaTabla",
                  columns |-> <<Column(id \o "-id", "id", "INT", TRUE, FALSE)>>]]

isManyToMany(kind, sourceMult, targetMult) ==
    kind = "segmentada" /\ sourceMult = "*" /\ targetMult = "*"

\* sourceNode?.data.label ?? connection.source
endpointLabel(ns, id) ==
    LET found == Find(ns, id)
    IN IF found # <<>> THEN Coalesce(found[1].data, "label", id) ELSE id

joinId(source, target, t) == "join-" \o source \o "-" \o target \o "-" \o NowString(t)

joinLabel(sourceLabel, targetLabel) == sourceLabel \o "_" \o targetLabel

\* the position of the join entity; the model keeps coordinates even, so / 2 is exact
joinPosition(ns, source, target) ==
    LET sourceNode == Find(ns, source)
        targetNode == Find(ns, target)
        sourcePosition == IF sourceNode # <<>> /\ "position" \in DOMAIN sourceNode[1]
                          THEN sourceNode[1].position ELSE Position(100, 100)
        targetPosition == IF targetNode # <<>> /\ "position" \in DOMAIN targetNode[1]
                          THEN targetNode[1].position
                          ELSE Position(sourcePosition.x + 200, sourcePosition.y)
    IN Position((sourcePosition.x + targetPosition.x) \div 2,
                Max(sourcePosition.y, targetPosition.y) + 200)

joinColumns(ns, source, target, t) ==
    LET jid == joinId(source, target, t)
    IN <<Column(jid \o "-id", "id", "INT", TRUE, FALSE),
         ColumnNoPk(jid \o "-" \o source, toIdentifier(endpointLabel(ns, source)) \o "_id", "INT", FALSE),
         ColumnNoPk(jid \o "-" \o target, toIdentifier(endpointLabel(ns, target)) \o "_id", "INT", FALSE)>>

joinNode(ns, source, target, t) ==
    [id |-> joinId(source, target, t),
     type |-> "databaseNode",
     position |-> joinPosition(ns, source, target),
     data |-> [label |-> joinLabel(endpointLabel(ns, source), endpointLabel(ns, target)),
               columns |-> joinColumns(ns, source, target, t),
               isJoin |-> TRUE,
               joinOf |-> <<endpointLabel(ns, source), endpointLabel(ns, target)>>]]

edgeId(source, target, t) == "edge-" \o source \o "-" \o target \o "-" \o NowString(t)

\* the relationship literal of onConnect (many-to-many branch: no handles)
joinEdge(id, source, target, sourceMult, targetMult) ==
    [id |-> id, source |-> source, target |-> target, label |-> "",
     data |-> [id |-> id, source |-> source, target |-> target, kind |-> "simple",
               sourceMult |-> sourceMult, targetMult |-> targetMult, label |-> ""]]

leftEdge(source, target, t1, t2, sourceMult) ==
    joinEdge(edgeId(source, joinId(source, target, t1), t2),
             source, joinId(source, target, t1), sourceMult, "1")

rightEdge(source, target, t1, t2, targetMult) ==
    joinEdge(edgeId(joinId(source, target, t1), target, t2),
             joinId(source, target, t1), target, "1", targetMult)

\* the relationship literal of onConnect (direct branch); the handles are null
newEdge(source, target, t, kind, sourceMult, targetMult) ==
    [id |-> edgeId(source, target, t), source |-> source, target |-> target,
     sourceHandle |-> Undefined, targetHandle |-> Undefined, label |-> "",
     data |-> [id |-> edgeId(source, target, t), source |-> source, target |-> target,
               kind |-> kind, sourceMult |-> sourceMult, targetMult |-> targetMult, label |-> ""]]

\* onConnect: the graph after the gesture.  t1 and t2 are the two readings of
\* Date.now() (the branch for the direct case reads the clock once, at t1).
onConnect(st, kind, sourceMult, targetMult, source, target, t1, t2) ==
    IF isManyToMany(kind, sourceMult, targetMult)
    THEN addEdges(addNodes(st, <<joinNode(st.nodes, source, target, t1)>>),
                  <<leftEdge(source, target, t1, t2, sourceMult),
                    rightEdge(source, target, t1, t2, targetMult)>>)
    ELSE addEdges(st, <<newEdge(source, target, t1, kind, sourceMult, targetMult)>>)

\* variant: a buffer whose entity is not in the graph is dropped
handleSaveTable_mut(st, buffer, tableName, columns) ==
    updateNodeData(st, Get(buffer, "id"), [label |-> tableName, columns |-> columns])

\* handleSaveTable: the graph after Save on the buffered node
handleSaveTable(st, buffer, tableName, columns) ==
    LET payload == [label |-> tableName, columns |-> columns]
        exists == \E i \in 1..Len(st.nodes) : Get(st.nodes[i], "id") = Get(buffer, "id")
    IN IF exists
       THEN updateNodeData(st, Get(buffer, "id"), payload)
       ELSE addNodes(st, <<Merge(buffer, [data |-> payload])>>)

\* handleSaveRelationship: the graph after Save in the relationship editor
handleSaveRelationship(st, relationship) ==
    updateEdgeData(updateEdge(st, relationship.id, [label |-> Coalesce(relationship, "label", "")]),
                   relationship.id,
                   [kind |-> relationship.kind,
                    sourceMult |-> relationship.sourceMult,
                    targetMult |-> relationship.targetMult,
                    label |-> Coalesce(relationship, "label", "")])

\* the relationship prop DiagramCanvas passes to RelationshipEditor
relationshipProp(edge) ==
    LET data == IF "data" \in DOMAIN edge THEN edge.data ELSE EmptyObject
    IN [id |-> Get(edge, "id"),
        source |-> Get(edge, "source"),
        target |-> Get(edge, "target"),
        kind |-> Coalesce(data, "kind", "simple"),
        sourceMult |-> Coalesce(data, "sourceMult", "1"),
        targetMult |-> Coalesce(data, "targetMult", "*"),
        label |-> Coalesce(data, "label", Coalesce(edge, "label", ""))]

\* applyNodeChanges / applyEdgeChanges for a change of type "remove"
applyRemoveChange(list, id) ==
    LET keep(x) == Get(x, "id") # id
    IN SelectSeq(list, keep)

\* applyNodeChanges for a change of type "position"
applyPositionChange(list, id, position) ==
    LET f(node) == IF Get(node, "id") = id THEN Merge(node, [position |-> position]) ELSE node
    IN Map(list, f)

----------------------------------------------------------------------------
(* ChatPanel: applyGraphToCanvas *)

\* Math.random().toString(36).slice(2) in the id of a relationship that has none
RandomSuffixes == {"k3x9"}

\* the sanitizing map of applyGraphToCanvas, for one relationship
sanitizeEdge(edge, rnd) ==
    LET baseData == IF "data" \in DOMAIN edge THEN edge.data ELSE EmptyObject
    IN Merge(edge,
             [data |-> Merge(baseData,
                 [id         |-> Coalesce(baseData, "id", Coalesce(edge, "id", "edge-" \o rnd)),
                  source     |-> Coalesce(baseData, "source", Get(edge, "source")),
                  target     |-> Coalesce(baseData, "target", Get(edge, "target")),
                  kind       |-> Coalesce(baseData, "kind", "simple"),
                  sourceMult |-> Coalesce(baseData, "sourceMult", "1"),
                  targetMult |-> Coalesce(baseData, "targetMult", "*"),
                  label      |-> Coalesce(baseData, "label", "")])])

\* variant: the graph is added to what the canvas holds
applyGraphToCanvas_mut(st, graph, rnd) ==
    LET safeNodes == IF "nodes" \in DOMAIN graph THEN graph.nodes ELSE <<>>
        safeEdges == IF "edges" \in DOMAIN graph THEN graph.edges ELSE <<>>
        sanitize(edge) == sanitizeEdge(edge, rnd)
    IN addEdges(addNodes(st, safeNodes), Map(safeEdges, sanitize))

\* applyGraphToCanvas: the store's graph after the call
applyGraphToCanvas(st, graph, rnd) ==
    LET safeNodes == IF "nodes" \in DOMAIN graph THEN graph.nodes ELSE <<>>
        safeEdges == IF "edges" \in DOMAIN graph THEN graph.edges ELSE <<>>
        sanitize(edge) == sanitizeEdge(edge, rnd)
    IN setGraph(st, Graph(safeNodes, Map(safeEdges, sanitize)))

----------------------------------------------------------------------------
(* Graphs supplied from outside: what the generation service, the vision    *)
(* service or a history snapshot may hold.                                  *)

tableNode(id, x, y, label) ==
    [id |-> id, type |-> "databaseNode", position |-> Position(x, y),
     data |-> [label |-> label,
               columns |-> <<Column(id \o "-id", "id", "INT", TRUE, FALSE)>>]]

\* two entities and one relationship that carries only source and target
GraphClientePedido ==
    Graph(<<tableNode("a", 0, 0, "Cliente"), tableNode("b", 320, 64, "Pedido")>>,
          <<[source |-> "a", target |-> "b"]>>)

\* one entity and a relationship to an entity that is not in the graph, with a
\* kind and a multiplicity outside the closed sets
GraphDangling ==
    Graph(<<tableNode("a", 0, 0, "Detalle  Venta")>>,
          <<[id |-> "e1", source |-> "a", target |-> "zz",
             data |-> [kind |-> "herencia", sourceMult |-> "N"]]>>)

ExternalGraphs == {GraphClientePedido, GraphDangling}

----------------------------------------------------------------------------
(* ChatPanel: the history list and the active-conversation pointer *)

DEFAULT_PROMPT == "Crea tablas Usuario(id, nombre, email) y Post(id, user_id, titulo). Relacion 1:N"

\* null for a history id; the ids the service assigns are positive numbers
Null == 0

(* ChatPanel: the fallback generator used when the generation call fails *)

\* String.prototype.includes
includes(text, word) ==
    \E i \in 1..(Len(text) - Len(word) + 1) : SubSeq(text, i, i + Len(word) - 1) = word

buildNode(id, label, columns, position, extra) ==
    [id |-> id, type |-> "databaseNode", position |-> position,
     data |-> Merge([label |-> label, columns |-> columns], extra)]

\* variant: the data bundle carries no kind
buildEdge_mut(id, source, target, sourceMult, targetMult, kind, label) ==
    [id |-> id, source |-> source, target |-> target, label |-> label,
     data |-> [id |-> id, source |-> source, target |-> target, sourceMult |-> sourceMult,
               targetMult |-> targetMult, label |-> label]]

buildEdge(id, source, target, sourceMult, targetMult, kind, label) ==
    [id |-> id, source |-> source, target |-> target, label |-> label,
     data |-> [id |-> id, source |-> source, target |-> target, kind |-> kind,
               sourceMult |-> sourceMult, targetMult |-> targetMult, label |-> label]]

\* buildEdge called with its default kind and label
buildEdgeDefault(id, source, target, sourceMult, targetMult) ==
    buildEdge(id, source, target, sourceMult, targetMult, "simple", "")

buildSupermarketDiagram ==
    Graph(
      <<buildNode("node-productos", "Productos",
                  <<Column("prod-id", "id", "INT", TRUE, FALSE),
                    ColumnNoPk("prod-nombre", "nombre", "VARCHAR(120)", FALSE),
                    ColumnNoPk("prod-precio", "precio", "DECIMAL(10,2)", FALSE),
                    ColumnNoPk("prod-stock", "stock", "INT", FALSE)>>,
                  Position(460, 140), EmptyObject),
        buildNode("node-categorias", "Categorias",
                  <<Column("cat-id", "id", "INT", TRUE, FALSE),
                    ColumnNoPk("cat-nombre", "nombre", "VARCHAR(120)", FALSE),
                    ColumnNoPk("cat-descripcion", "descripcion", "TEXT", TRUE)>>,
                  Position(180, 80), EmptyObject),
        buildNode("node-proveedores", "Proveedores",
                  <<Column("prov-id", "id", "INT", TRUE, FALSE),
                    ColumnNoPk("prov-nombre", "nombre", "VARCHAR(150)", FALSE),
                    ColumnNoPk("prov-telefono", "telefono", "VARCHAR(50)", TRUE),
                    ColumnNoPk("prov-email", "email", "VARCHAR(120)", TRUE)>>,
                  Position(760, 80), EmptyObject),
        buildNode("node-clientes", "Clientes",
                  <<Column("cli-id", "id", "INT", TRUE, FALSE),
                    ColumnNoPk("cli-nombre", "nombre", "VARCHAR(150)", FALSE),
                    ColumnNoPk("cli-email", "email", "VARCHAR(150)", TRUE),
                    ColumnNoPk("cli-telefono", "telefono", "VARCHAR(50)", TRUE)>>,
                  Position(180, 360), EmptyObject),
        buildNode("node-empleados", "Empleados",
                  <<Column("emp-id", "id", "INT", TRUE, FALSE),
                    ColumnNoPk("emp-nombre", "nombre", "VARCHAR(150)", FALSE),
                    ColumnNoPk("emp-rol", "rol", "VARCHAR(80)", FALSE)>>,
                  Position(760, 360), EmptyObject),
        buildNode("node-ventas", "Ventas",
                  <<Column("ven-id", "id", "INT", TRUE, FALSE),
                    ColumnNoPk("ven-fecha", "fecha", "DATETIME", FALSE),
                    ColumnNoPk("ven-total", "total", "DECIMAL(10,2)", FALSE),
                    ColumnNoPk("ven-cliente", "cliente_id", "INT", FALSE),
                    ColumnNoPk("ven-empleado", "empleado_id", "INT", FALSE)>>,
                  Position(460, 360), EmptyObject),
        buildNode("node-detalle-venta", "DetalleVenta",
                  <<Column("det-id", "id", "INT", TRUE, FALSE),
                    ColumnNoPk("det-venta", "venta_id", "INT", FALSE),
                    ColumnNoPk("det-producto", "producto_id", "INT", FALSE),
                    ColumnNoPk("det-cantidad", "cantidad", "INT", FALSE),
                    ColumnNoPk("det-precio", "precio_unitario", "DECIMAL(10,2)", FALSE)>>,
                  Position(460, 560), [isJoin |-> TRUE, joinOf |-> <<"Ventas", "Productos">>]),
        buildNode("node-inventario", "Inventario",
                  <<Column("inv-id", "id", "INT", TRUE, FALSE),
                    ColumnNoPk("inv-producto", "producto_id", "INT", FALSE),
                    ColumnNoPk("inv-sucursal", "sucursal", "VARCHAR(80)", FALSE),
                    ColumnNoPk("inv-stock", "stock_actual", "INT", FALSE)>>,
                  Position(900, 360), EmptyObject)>>,
      <<buildEdgeDefault("edge-cat-productos", "node-categorias", "node-productos", "1", "*"),
        buildEdgeDefault("edge-prov-productos", "node-proveedores", "node-productos", "1", "*"),
        buildEdgeDefault("edge-productos-inventario", "node-productos", "node-inventario", "1", "*"),
        buildEdgeDefault("edge-clientes-ventas", "node-clientes", "node-ventas", "1", "*"),
        buildEdgeDefault("edge-empleados-ventas", "node-empleados", "node-ventas", "1", "*"),
        buildEdgeDefault("edge-ventas-detalle", "node-ventas", "node-detalle-venta", "1", "*"),
        buildEdgeDefault("edge-productos-detalle", "node-productos", "node-detalle-venta", "1", "*")>>)

buildDefaultDiagram ==
    Graph(
      <<buildNode("node-usuario-ai", "Usuario",
                  <<Column("u-id", "id", "INT", TRUE, FALSE),
                    ColumnNoPk("u-nombre", "nombre", "VARCHAR(100)", FALSE),
                    ColumnNoPk("u-email", "email", "VARCHAR(150)", FALSE)>>,
                  Position(200, 140), EmptyObject),
        buildNode("node-post-ai", "Post",
                  <<Column("p-id", "id", "INT", TRUE, FALSE),
                    ColumnNoPk("p-user", "user_id", "INT", FALSE),
                    ColumnNoPk("p-title", "titulo", "VARCHAR(200)", FALSE)>>,
                  Position(520, 200), EmptyObject)>>,
      <<buildEdge("edge-usuario-post-ai", "node-usuario-ai", "node-post-ai", "1", "*",
                  "simple", "Usuario crea Post")>>)

\* variant: the keywords are looked for in the prompt as typed
buildFallbackDiagram_mut(text) ==
    IF includes(text, "supermercado") \/ includes(text, "supermarket") THEN <<buildSupermarketDiagram>>
    ELSE IF includes(text, "usuario") \/ includes(text, "post") THEN <<buildDefaultDiagram>>
    ELSE <<>>

\* buildFallbackDiagram: DiagramGraph | null, as a sequence of at most one graph (<<>> = null)
buildFallbackDiagram(promptText) ==
    LET text == toLowerCase(promptText)
    IN IF includes(text, "supermercado") \/ includes(text, "supermarket") THEN <<buildSupermarketDiagram>>
       ELSE IF includes(text, "usuario") \/ includes(text, "post") THEN <<buildDefaultDiagram>>
       ELSE <<>>

\* a || b on strings
OrElse(a, b) == IF a # "" /\ a # Undefined THEN a ELSE b

\* ApiHistoryItem, as GET /ai/history returns it
ApiHistoryItem(id, text, graph) ==
    [id |-> id, user_id |-> 1, prompt |-> text, graph |-> graph, created_at |-> "2025-01-01T00:00:00Z"]

\* loadHistory: records.map(item => ({ id, userId, prompt, graph, createdAt }))
mapHistoryItem(item) ==
    [id |-> item.id, userId |-> item.user_id, prompt |-> item.prompt, graph |-> item.graph,
     createdAt |-> item.created_at]

\* variant: preserveNullSelection is not looked at
nextActive_mut(mapped, currentActive, preserveNullSelection) ==
    LET exists == currentActive # Null /\ \E i \in 1..Len(mapped) : mapped[i].id = currentActive
    IN IF exists THEN currentActive
       ELSE IF Len(mapped) > 0 THEN mapped[1].id ELSE Null

\* loadHistory: the pointer after the list has been replaced by mapped
nextActive(mapped, currentActive, preserveNullSelection) ==
    LET exists == currentActive # Null /\ \E i \in 1..Len(mapped) : mapped[i].id = currentActive
    IN IF exists THEN currentActive
       ELSE IF preserveNullSelection /\ currentActive = Null THEN Null
       ELSE IF Len(mapped) > 0 THEN mapped[1].id ELSE Null

\* handleGenerate: the payload's graph
graphPayload(ns, es) ==
    LET n(node) == [id |-> Get(node, "id"), type |-> Get(node, "type"),
                    position |-> Get(node, "position"), data |-> Get(node, "data")]
        e(edge) == [id |-> Get(edge, "id"), source |-> Get(edge, "source"), target |-> Get(edge, "target"),
                    label |-> Get(edge, "label"), data |-> Get(edge, "data")]
    IN [nodes |-> Map(ns, n), edges |-> Map(es, e)]

\* handleGenerate: the body of POST /ai/generate
generatePayload(trimmed, ns, es, activeId) ==
    IF activeId # Null
    THEN [prompt |-> trimmed, graph |-> graphPayload(ns, es), history_id |-> activeId]
    ELSE [prompt |-> trimmed, graph |-> graphPayload(ns, es)]

\* handleProcessImage: the form fields of POST /ai/vision next to the image
visionPayload(trimmedPrompt, activeId) ==
    Merge(IF trimmedPrompt # "" THEN [prompt |-> trimmedPrompt] ELSE EmptyObject,
          IF activeId # Null THEN [history_id |-> activeId] ELSE EmptyObject)

\* handleGenerate: the graph read from the response
responseGraph(data) ==
    [nodes |-> IF "nodes" \in DOMAIN data THEN data.nodes ELSE <<>>,
     edges |-> IF "edges" \in DOMAIN data THEN data.edges ELSE <<>>]

\* variant: the patched entry is rebuilt from id, prompt and graph
patchGenerated_mut(prev, activeId, trimmed, graph) ==
    LET f(entry) == IF entry.id = activeId
                    THEN [id |-> entry.id, prompt |-> trimmed, graph |-> graph]
                    ELSE entry
    IN Map(prev, f)

\* handleGenerate: setHistory(prev => prev.map(...)) for the entry that was active at submission
patchGenerated(prev, activeId, trimmed, graph) ==
    LET f(entry) == IF entry.id = activeId THEN Merge(entry, [prompt |-> trimmed, graph |-> graph]) ELSE entry
    IN Map(prev, f)

\* handleProcessImage: setHistory(prev => prev.map(...))
patchVision(prev, activeId, promptFromResponse, graph) ==
    LET f(entry) == IF entry.id = activeId
                    THEN Merge(entry, [prompt |-> OrElse(promptFromResponse, entry.prompt), graph |-> graph])
                    ELSE entry
    IN Map(prev, f)

\* the request a call of loadHistory has in flight; after names the handler that
\* awaits it and adopt the history id that handler sets when it resumes
\* variant: only a response without the two lists counts as empty
isEmptyGraph_mut(graph) == FALSE

\* graph.nodes.length === 0 && graph.edges.length === 0
isEmptyGraph(graph) == graph.nodes = <<>> /\ graph.edges = <<>>

\* what a failed POST leaves in the handler's catch block: err.message and, when the
\* service answered with an error body, err.response.data.detail
RequestError(message, detail) == [message |-> message, detail |-> detail]

\* the service cannot be reached, or answers 422 with a detail
GenerationFailures ==
    {RequestError("Network Error", Undefined),
     RequestError("Request failed with status code 422", "Prompt invalido")}

\* variant: the fallback generator is asked before the error body is looked at
handleGenerateCatch_mut(st, err, trimmed, rnd) ==
    LET fallback == buildFallbackDiagram(trimmed)
    IN IF fallback # <<>>
       THEN [graph |-> applyGraphToCanvas(st, fallback[1], rnd),
             error |-> "Backend no disponible; se genero un diseno local."]
       ELSE [graph |-> st, error |-> IF err.detail \notin {Undefined, ""} THEN err.detail ELSE err.message]

\* the catch block of handleGenerate: the store's graph and the message after it
handleGenerateCatch(st, err, trimmed, rnd) ==
    LET fallback == buildFallbackDiagram(trimmed)
    IN IF err.detail \notin {Undefined, ""}
       THEN [graph |-> st, error |-> err.detail]
       ELSE IF fallback # <<>>
            THEN [graph |-> applyGraphToCanvas(st, fallback[1], rnd),
                  error |-> "Backend no disponible; se genero un diseno local."]
            ELSE [graph |-> st, error |-> err.message]

\* variant: the handler reads the pointer as it is when the response arrives
closureActiveHistoryId_mut(request, current) == current

\* activeHistoryId inside a handler: the value its closure captured when it was called
closureActiveHistoryId(request, current) == request.activeHistoryId

\* the requests issued before request i whose response has not been applied yet see a
\* later request's response applied first (observer)
MarkOvertaken(list, i) ==
    [j \in 1..Len(list) |->
        IF j < i /\ list[j].op \in {"generate", "vision"}
        THEN Merge(list[j], [overtaken |-> TRUE]) ELSE list[j]]

historyRequest(preserveNullSelection, after, adopt) ==
    [op |-> "history", stage |-> "sent", preserveNullSelection |-> preserveNullSelection,
     after |-> after, adopt |-> adopt]

RemoveAt(s, i) == SubSeq(s, 1, i - 1) \o SubSeq(s, i + 1, Len(s))

\* what the last successful generation / vision response did: the branch taken,
\* the pointer its handler had captured and the history id the response reported
Outcome(op, branch, active, reported) ==
    [op |-> op, branch |-> branch, active |-> active, reported |-> reported]

\* variant: the reported id is not compared
patchesInPlace_mut(active, historyIdFromResponse) ==
    active # Null

\* handleProcessImage: the test that chooses the in-place patch
patchesInPlace(active, historyIdFromResponse) ==
    active # Null /\ historyIdFromResponse = active

\* the request handleDeleteEntry has in flight
deleteRequest(historyId) == [op |-> "delete", stage |-> "sent", historyId |-> historyId]

\* variant: the delete is started whatever isClearingHistory says
handleDeleteEntry_mut(clearing, panel, historyId) ==
    [deletingId |-> historyId, historyError |-> Undefined,
     requests |-> Append(panel.requests, deleteRequest(historyId))]

\* handleDeleteEntry up to its await, on the panel's deletingId, historyError and
\* requests in flight; the user confirms the dialog
handleDeleteEntry(clearing, panel, historyId) ==
    IF clearing
    THEN panel
    ELSE [deletingId |-> historyId, historyError |-> Undefined,
          requests |-> Append(panel.requests, deleteRequest(historyId))]

\* the loadHistory call handleDeleteEntry awaits after DELETE /ai/history/<id>
deleteRefetch(historyId) ==
    Merge(historyRequest(TRUE, "delete", Null), [historyId |-> historyId])

\* variant: the prompt box is emptied
afterClearHistory_mut == [history |-> <<>>, activeHistoryId |-> Null, prompt |-> ""]

\* handleClearHistory after DELETE /ai/history: the list, the pointer and the prompt box
afterClearHistory == [history |-> <<>>, activeHistoryId |-> Null, prompt |-> DEFAULT_PROMPT]

----------------------------------------------------------------------------
(* The history service behind /ai/generate, /ai/vision and /ai/history *)

\* the entry the service holds under an id, from an earlier session
serviceEntry(id) ==
    ApiHistoryItem(id, IF id % 2 = 1 THEN "tienda" ELSE "ventas",
                   IF id % 2 = 1 THEN GraphClientePedido ELSE GraphDangling)

\* the n entries with the ids 1..n, newest first
serviceList(n) == [k \in 1..n |-> serviceEntry(n - k + 1)]

serverHas(list, id) == \E i \in 1..Len(list) : list[i].id = id

\* the list after the service has recorded a result: the entry named by the
\* request is updated in place, otherwise a new entry is put first
serverRecord(list, historyId, nextId, text, graph) ==
    IF historyId # Null /\ serverHas(list, historyId)
    THEN LET f(item) == IF item.id = historyId THEN Merge(item, [prompt |-> text, graph |-> graph]) ELSE item
         IN Map(list, f)
    ELSE <<ApiHistoryItem(nextId, text, graph)>> \o list

\* the id of the entry that holds the result
serverRecordId(list, historyId, nextId) ==
    IF historyId # Null /\ serverHas(list, historyId) THEN historyId ELSE nextId

\* the prompt the vision service stores when the upload carries none
VisionCaption == "Diagrama importado"

----------------------------------------------------------------------------
(* TableEditor and RelationshipEditor: what the forms hand to Save *)

\* the text typed in the table-name field
TableNameInputs == {"Venta", "  "}

\* TableEditor.handleSave: tableName.trim() || "Tabla"
savedTableName(input) == IF trim(input) = "" THEN "Tabla" ELSE trim(input)

\* TableEditor.handleAddColumn at clock value t
addedColumn(columns, t) ==
    Column("column-" \o NowString(t), "col_" \o ToString(Len(columns) + 1), "VARCHAR(255)", FALSE, TRUE)

\* the column lists Save can carry: the buffer's columns, or those plus one added column
ColumnEdits(columns, t) ==
    {columns} \cup (IF Len(columns) < MaxColumns THEN {Append(columns, addedColumn(columns, t))} ELSE {})

\* the label typed in the relationship editor
RelationshipLabelInputs == {"tiene"}

\* RelationshipEditor.handleSave: { ...relationship, kind, sourceMult, targetMult, label }
RelationshipForms(relationship) ==
    {Merge(relationship, [kind |-> k, sourceMult |-> sm, targetMult |-> tm, label |-> l]) :
        k \in {relationship.kind, "flechaNegra"},
        sm \in {relationship.sourceMult},
        tm \in {relationship.targetMult},
        l \in RelationshipLabelInputs}

----------------------------------------------------------------------------
(* Actions of the canvas specification *)

\* ChatPanel after mount: the initial loadHistory() is in flight
InitPanel ==
    /\ prompt = DEFAULT_PROMPT
    /\ isLoading = FALSE
    /\ error = Undefined
    /\ history = <<>>
    /\ isHistoryLoading = TRUE
    /\ historyError = Undefined
    /\ activeHistoryId = Null
    /\ deletingId = Null
    /\ isClearingHistory = FALSE
    /\ requests = <<historyRequest(FALSE, "none", Null)>>
    /\ lastOutcome = Outcome("none", "none", Null, Null)

\* ... for a user the service holds no history of
InitChat ==
    /\ InitPanel
    /\ serverHistory = <<>>
    /\ serverNextId = 1

InitCanvas ==
    /\ nodes = <<>>
    /\ edges = <<>>
    /\ selectedRelationshipKind = "simple"
    /\ selectedSourceMult = "1"
    /\ selectedTargetMult = "*"
    /\ editingNode = <<>>
    /\ isEditorOpen = FALSE
    /\ editingEdge = <<>>
    /\ isRelationshipEditorOpen = FALSE
    /\ now = 1

\* no relationship has been handed to the normalizer
InitNormIdle ==
    /\ normInput = EmptyObject
    /\ normEdge = EmptyObject
    /\ normCalls = 0

\* no label has been handed to toIdentifier
InitIdentIdle ==
    /\ identLabel = ""
    /\ identResult = Undefined

\* no prompt has been handed to the fallback generator
InitFallbackIdle ==
    /\ fallbackPrompt = ""
    /\ fallbackResult = <<>>

\* useAuthStore's initial state: nobody is signed in and no call is in flight
InitAuth ==
    /\ token = <<>>
    /\ user = <<>>
    /\ isAuthenticated = FALSE
    /\ authorization = <<>>
    /\ authRequests = <<>>
    /\ authError = ""

Init ==
    /\ InitCanvas
    /\ InitChat
    /\ InitNormIdle
    /\ InitIdentIdle
    /\ InitFallbackIdle
    /\ InitAuth

toolVars == <<selectedRelationshipKind, selectedSourceMult, selectedTargetMult>>

\* TableEditor and RelationshipEditor render a fixed full-viewport overlay
\* (inset: 0, zIndex: 1000) while open: no pointer event reaches the canvas,
\* the toolbar or the chat panel until Save or Cancel closes it
NoModalOpen == ~isEditorOpen /\ ~isRelationshipEditorOpen

\* time passes between two handlers
Tick ==
    /\ now < MaxNow
    /\ now' = now + 1
    /\ UNCHANGED <<storeVars, canvasVars>>
    /\ UNCHANGED outsideCanvas

SetSelectedRelationshipKind(kind) ==
    /\ NoModalOpen
    /\ selectedRelationshipKind' = kind
    /\ UNCHANGED <<nodes, edges, selectedSourceMult, selectedTargetMult, canvasVars, now>>
    /\ UNCHANGED outsideCanvas

SetSelectedSourceMult(mult) ==
    /\ NoModalOpen
    /\ selectedSourceMult' = mult
    /\ UNCHANGED <<nodes, edges, selectedRelationshipKind, selectedTargetMult, canvasVars, now>>
    /\ UNCHANGED outsideCanvas

SetSelectedTargetMult(mult) ==
    /\ NoModalOpen
    /\ selectedTargetMult' = mult
    /\ UNCHANGED <<nodes, edges, selectedRelationshipKind, selectedSourceMult, canvasVars, now>>
    /\ UNCHANGED outsideCanvas

HandleLoadSample(graph) ==
    /\ NoModalOpen
    /\ Set(setGraph(store, graph))
    /\ editingNode' = <<>>
    /\ isEditorOpen' = FALSE
    /\ editingEdge' = <<>>
    /\ isRelationshipEditorOpen' = FALSE
    /\ UNCHANGED <<toolVars, now>>
    /\ UNCHANGED outsideCanvas

HandleClearDiagram ==
    /\ NoModalOpen
    /\ ~(nodes = <<>> /\ edges = <<>>)
    /\ Set(resetGraph(store))
    /\ editingNode' = <<>>
    /\ isEditorOpen' = FALSE
    /\ editingEdge' = <<>>
    /\ isRelationshipEditorOpen' = FALSE
    /\ UNCHANGED <<toolVars, now>>
    /\ UNCHANGED outsideCanvas

\* a graph from the chat panel (generation result, history snapshot, fallback)
\* reaches the canvas; the edit buffers stay as they are
ApplyGraphToCanvas(graph, rnd) ==
    /\ Set(applyGraphToCanvas(store, graph, rnd))
    /\ UNCHANGED <<toolVars, canvasVars, now>>
    /\ UNCHANGED outsideCanvas

HandleEditNode(nodeId) ==
    /\ NoModalOpen
    /\ editingNode' = Find(nodes, nodeId)
    /\ isEditorOpen' = (Find(nodes, nodeId) # <<>>)
    /\ UNCHANGED <<storeVars, editingEdge, isRelationshipEditorOpen, now>>
    /\ UNCHANGED outsideCanvas

HandleDeleteNode(nodeId) ==
    /\ NoModalOpen
    /\ Set(removeNode(store, nodeId))
    /\ IF editingNode # <<>> /\ Get(editingNode[1], "id") = nodeId
       THEN editingNode' = <<>> /\ isEditorOpen' = FALSE
       ELSE UNCHANGED <<editingNode, isEditorOpen>>
    /\ UNCHANGED <<toolVars, editingEdge, isRelationshipEditorOpen, now>>
    /\ UNCHANGED outsideCanvas

HandleCreateNewTable(x, y) ==
    /\ NoModalOpen
    /\ editingNode' = <<newTableNode(now, x, y)>>
    /\ isEditorOpen' = TRUE
    /\ UNCHANGED <<storeVars, editingEdge, isRelationshipEditorOpen, now>>
    /\ UNCHANGED outsideCanvas

HandleSaveTable(tableName, columns) ==
    /\ editingNode # <<>>
    /\ isEditorOpen
    /\ Set(handleSaveTable(store, editingNode[1], tableName, columns))
    /\ isEditorOpen' = FALSE
    /\ editingNode' = <<>>
    /\ UNCHANGED <<toolVars, editingEdge, isRelationshipEditorOpen, now>>
    /\ UNCHANGED outsideCanvas

HandleCloseEditor ==
    /\ editingNode # <<>>
    /\ isEditorOpen
    /\ isEditorOpen' = FALSE
    /\ editingNode' = <<>>
    /\ UNCHANGED <<storeVars, editingEdge, isRelationshipEditorOpen, now>>
    /\ UNCHANGED outsideCanvas

HandleEditRelationship(id) ==
    /\ NoModalOpen
    /\ Find(edges, id) # <<>>
    /\ editingEdge' = Find(edges, id)
    /\ isRelationshipEditorOpen' = TRUE
    /\ UNCHANGED <<storeVars, editingNode, isEditorOpen, now>>
    /\ UNCHANGED outsideCanvas

HandleDeleteRelationship(id) ==
    /\ NoModalOpen
    /\ Set(removeEdge(store, id))
    /\ UNCHANGED <<toolVars, canvasVars, now>>
    /\ UNCHANGED outsideCanvas

HandleSaveRelationship(relationship) ==
    /\ editingEdge # <<>>
    /\ isRelationshipEditorOpen
    /\ Set(handleSaveRelationship(store, relationship))
    /\ isRelationshipEditorOpen' = FALSE
    /\ editingEdge' = <<>>
    /\ UNCHANGED <<toolVars, editingNode, isEditorOpen, now>>
    /\ UNCHANGED outsideCanvas

HandleCloseRelationshipEditor ==
    /\ editingEdge # <<>>
    /\ isRelationshipEditorOpen
    /\ isRelationshipEditorOpen' = FALSE
    /\ editingEdge' = <<>>
    /\ UNCHANGED <<storeVars, editingNode, isEditorOpen, now>>
    /\ UNCHANGED outsideCanvas

\* onNodesChange with one change of type "remove" (the Delete key on a selected node)
OnNodesChangeRemove(id) ==
    /\ Set(setNodes(store, applyRemoveChange(nodes, id)))
    /\ UNCHANGED <<toolVars, canvasVars, now>>
    /\ UNCHANGED outsideCanvas

\* onNodesChange with one change of type "position" (a drag)
OnNodesChangePosition(id, position) ==
    /\ NoModalOpen
    /\ Set(setNodes(store, applyPositionChange(nodes, id, position)))
    /\ UNCHANGED <<toolVars, canvasVars, now>>
    /\ UNCHANGED outsideCanvas

\* onEdgesChange with one change of type "remove"
OnEdgesChangeRemove(id) ==
    /\ Set(setEdges(store, applyRemoveChange(edges, id)))
    /\ UNCHANGED <<toolVars, canvasVars, now>>
    /\ UNCHANGED outsideCanvas

\* onConnect; the clock may advance between the two readings of Date.now()
OnConnect(source, target, t2) ==
    /\ NoModalOpen
    /\ source # Undefined /\ target # Undefined
    /\ Len(source) <= MaxIdLen /\ Len(target) <= MaxIdLen
    /\ LET g == onConnect(store, selectedRelationshipKind, selectedSourceMult, selectedTargetMult,
                          source, target, now, t2)
       IN /\ Len(g.nodes) <= MaxNodes
          /\ Len(g.edges) <= MaxEdges
          /\ Set(g)
    /\ now' = IF isManyToMany(selectedRelationshipKind, selectedSourceMult, selectedTargetMult)
              THEN t2 ELSE now
    /\ UNCHANGED <<toolVars, canvasVars>>
    /\ UNCHANGED outsideCanvas

\* positions a drag can end at
DragPositions == {Position(64, 192)}

\* The relationship specification of the canvas: the toolbar, the connection
\* gesture, deletion of entities and relationships through their buttons, and
\* the arrival of a graph from outside.
Next ==
    \/ Tick
    \/ \E kind \in ToolKinds : SetSelectedRelationshipKind(kind)
    \/ \E mult \in ToolMults : SetSelectedSourceMult(mult)
    \/ \E mult \in ToolMults : SetSelectedTargetMult(mult)
    \/ HandleClearDiagram
    \/ \E graph \in ExternalGraphs, rnd \in RandomSuffixes : ApplyGraphToCanvas(graph, rnd)
    \/ \E id \in Ids(nodes) : HandleDeleteNode(id)
    \/ \E id \in Ids(edges) : HandleDeleteRelationship(id)
    \/ \E id \in Ids(edges) : OnEdgesChangeRemove(id)
    \/ \E source \in Ids(nodes), target \in Ids(nodes), t2 \in now..Min(now + 1, MaxNow) :
          OnConnect(source, target, t2)

Spec == Init /\ [][Next]_vars

\* The editing specification of the canvas: the edit buffers of the table
\* editor and of the relationship editor, drags, the Delete key, deletion
\* through the entity's button, and the arrival of a graph from outside.
NextEdit ==
    \/ Tick
    \/ \E graph \in ExternalGraphs, rnd \in RandomSuffixes : ApplyGraphToCanvas(graph, rnd)
    \/ \E id \in Ids(nodes) : HandleEditNode(id)
    \/ \E id \in Ids(nodes) : HandleDeleteNode(id)
    \/ \E x \in RandomXs, y \in RandomYs : Len(nodes) < MaxNodes /\ HandleCreateNewTable(x, y)
    \/ \E input \in TableNameInputs :
          \E columns \in (IF editingNode # <<>> THEN ColumnEdits(editingNode[1].data.columns, now) ELSE {}) :
              HandleSaveTable(savedTableName(input), columns)
    \/ HandleCloseEditor
    \/ \E id \in Ids(edges) : HandleEditRelationship(id)
    \/ \E relationship \in (IF editingEdge # <<>> THEN RelationshipForms(relationshipProp(editingEdge[1])) ELSE {}) :
          HandleSaveRelationship(relationship)
    \/ HandleCloseRelationshipEditor
    \/ \E id \in Ids(nodes), position \in DragPositions : OnNodesChangePosition(id, position)
    \/ \E id \in Ids(nodes) : OnNodesChangeRemove(id)

SpecEdit == Init /\ [][NextEdit]_vars

\* a conversation's snapshot of a canvas on which Cliente and Pedido were connected
\* many-to-many: the two entities, their join entity and its two relationships
GraphWithJoin ==
    onConnect(Graph(<<tableNode("a", 0, 0, "Cliente"), tableNode("b", 320, 64, "Pedido")>>, <<>>),
              "segmentada", "*", "*", "a", "b", 1, 1)

\* The edit-buffer specification of the canvas: the table editor and the
\* relationship editor are opened, saved and cancelled over a canvas that holds
\* a join entity or tables made with "new table"; entities are deleted through
\* their button, and a snapshot arrives from the chat panel.
NextBuffer ==
    \/ Tick
    \/ \E rnd \in RandomSuffixes : ApplyGraphToCanvas(GraphWithJoin, rnd)
    \/ \E id \in Ids(nodes) : HandleEditNode(id)
    \/ \E id \in Ids(nodes) : HandleDeleteNode(id)
    \/ \E x \in RandomXs, y \in RandomYs : Len(nodes) < MaxNodes /\ HandleCreateNewTable(x, y)
    \/ \E input \in TableNameInputs :
          \E columns \in (IF editingNode # <<>> THEN ColumnEdits(editingNode[1].data.columns, now) ELSE {}) :
              HandleSaveTable(savedTableName(input), columns)
    \/ HandleCloseEditor
    \/ \E id \in Ids(edges) : HandleEditRelationship(id)
    \/ \E relationship \in (IF editingEdge # <<>> THEN RelationshipForms(relationshipProp(editingEdge[1])) ELSE {}) :
          HandleSaveRelationship(relationship)
    \/ HandleCloseRelationshipEditor

SpecBuffer == Init /\ [][NextBuffer]_vars

----------------------------------------------------------------------------
(* The store specification: the diagram store alone, its operations called  *)
(* in any order by any caller with arguments from small universes.          *)

\* entities a caller may pass: two tables, and a partial update of the first
StoreNodes ==
    {tableNode("a", 0, 0, "Cliente"),
     tableNode("b", 320, 64, "Pedido"),
     [id |-> "a", position |-> Position(64, 192)]}

\* relationships a caller may pass: bare, with an invalid bundle, with a bundle
\* that disagrees with the top-level fields, and one to an absent entity
StoreEdges ==
    {[id |-> "e1", source |-> "a", target |-> "b"],
     [id |-> "e2", source |-> "b", target |-> "a", label |-> "tiene",
      data |-> [kind |-> "herencia", sourceMult |-> "N"]],
     [id |-> "e1", source |-> "a", target |-> "zz",
      data |-> [id |-> "e9", source |-> "b", kind |-> "segmentada", label |-> "usa"]]}

\* the lists of length at most n over a set
RECURSIVE ListsOver(_, _)
ListsOver(S, n) ==
    IF n = 0 THEN {<<>>}
    ELSE ListsOver(S, n - 1) \cup {Append(l, x) : l \in {m \in ListsOver(S, n - 1) : Len(m) = n - 1}, x \in S}

StoreNodeLists == ListsOver(StoreNodes, MaxNodeList)
StoreEdgeLists == ListsOver(StoreEdges, MaxEdgeList)

\* a graph, as a service may return it, that uses an entity id and a relationship id twice
GraphRepeatedIds ==
    Graph(<<tableNode("a", 0, 0, "Cliente"), [id |-> "a", position |-> Position(64, 192)]>>,
          <<[id |-> "e1", source |-> "a", target |-> "b"],
            [id |-> "e1", source |-> "a", target |-> "zz",
             data |-> [id |-> "e9", source |-> "b", kind |-> "segmentada", label |-> "usa"]]>>)

\* graphs a caller may pass to setGraph
StoreGraphs ==
    ExternalGraphs \cup {GraphRepeatedIds} \cup
    {Graph(<<tableNode("a", 0, 0, "Cliente"), tableNode("b", 320, 64, "Pedido")>>,
           <<[id |-> "e2", source |-> "b", target |-> "a", label |-> "tiene",
              data |-> [kind |-> "herencia", sourceMult |-> "N"]],
             [id |-> "e1", source |-> "a", target |-> "b"]>>)}

StoreNodeIds == {"a", "b", "zz"}
StoreEdgeIds == {"e1", "e2", "e9"}

\* Partial<DiagramNode> arguments of updateNode
StoreNodeUpdates == {[position |-> Position(64, 192)]}

\* DatabaseNodeData arguments of updateNodeData
StoreNodeData == {[label |-> "Venta", columns |-> <<>>]}

\* Partial<DiagramEdge> arguments of updateEdge
StoreEdgeUpdates == {[target |-> "b", data |-> [kind |-> "flechaBlanca"]]}

\* Partial<RelationshipData> arguments of updateEdgeData
StoreEdgeData == {[kind |-> "compuesta", targetMult |-> "0..1"]}

StoreFrame == UNCHANGED <<toolVars, canvasVars, now, outsideCanvas>>

SetGraph(graph) == Set(setGraph(store, graph)) /\ StoreFrame
ResetGraph == Set(resetGraph(store)) /\ StoreFrame
SetNodes(ns) == Set(setNodes(store, ns)) /\ StoreFrame
SetEdges(es) == Set(setEdges(store, es)) /\ StoreFrame
AddNodes(incoming) == Set(addNodes(store, incoming)) /\ StoreFrame
AddEdges(incoming) == Set(addEdges(store, incoming)) /\ StoreFrame
UpdateNode(nodeId, updates) == Set(updateNode(store, nodeId, updates)) /\ StoreFrame
UpdateNodeData(nodeId, data) == Set(updateNodeData(store, nodeId, data)) /\ StoreFrame
RemoveNode(nodeId) == Set(removeNode(store, nodeId)) /\ StoreFrame
UpdateEdge(id, updates) == Set(updateEdge(store, id, updates)) /\ StoreFrame
UpdateEdgeData(id, data) == Set(updateEdgeData(store, id, data)) /\ StoreFrame
RemoveEdge(id) == Set(removeEdge(store, id)) /\ StoreFrame

NextStore ==
    \/ \E graph \in StoreGraphs : SetGraph(graph)
    \/ ResetGraph
    \/ \E ns \in StoreNodeLists : SetNodes(ns)
    \/ \E es \in StoreEdgeLists : SetEdges(es)
    \/ \E incoming \in StoreNodeLists : AddNodes(incoming)
    \/ \E incoming \in StoreEdgeLists : AddEdges(incoming)
    \/ \E nodeId \in StoreNodeIds, updates \in StoreNodeUpdates : UpdateNode(nodeId, updates)
    \/ \E nodeId \in StoreNodeIds, data \in StoreNodeData : UpdateNodeData(nodeId, data)
    \/ \E nodeId \in StoreNodeIds : RemoveNode(nodeId)
    \/ \E id \in StoreEdgeIds, updates \in StoreEdgeUpdates : UpdateEdge(id, updates)
    \/ \E id \in StoreEdgeIds, data \in StoreEdgeData : UpdateEdgeData(id, data)
    \/ \E id \in StoreEdgeIds : RemoveEdge(id)

SpecStore == Init /\ [][NextStore]_vars

----------------------------------------------------------------------------
(* The normalizer specification: normalizeEdge applied, and applied again,  *)
(* to relationships with any subset of top-level and nested fields.         *)

\* marks a key the object literal leaves out
Absent == "<absent>"

\* the object with the keys of f whose value is not Absent
Object(f) == [k \in {key \in DOMAIN f : f[key] # Absent} |-> f[k]]

\* top-level fields of a relationship a caller may pass to the normalizer
NormTopLevels ==
    {Object(f) : f \in [id : {Absent, "e1"}, source : {"a"}, target : {Absent, "b"}, label : {Absent, "tiene"}]}

\* attribute bundles: each field absent, null, valid or outside its closed set
NormBundles ==
    {Object(f) : f \in [id : {Absent, Undefined, "e9"},
                        source : {Absent, "x"},
                        kind : {Absent, Undefined, "flechaNegra", "herencia"},
                        sourceMult : {Absent, "0..1", "N"},
                        targetMult : {Absent, Undefined, "1..*"},
                        label : {Absent, "usa"}]}

NormEdges ==
    NormTopLevels \cup {Merge(top, [data |-> data]) : top \in NormTopLevels, data \in NormBundles}

InitNorm ==
    /\ InitCanvas
    /\ InitChat
    /\ normInput \in NormEdges
    /\ normEdge = normInput
    /\ normCalls = 0
    /\ InitIdentIdle
    /\ InitFallbackIdle
    /\ InitAuth

NormalizeEdge ==
    /\ normCalls < MaxNormCalls
    /\ normEdge' = normalizeEdge(normEdge)
    /\ normCalls' = normCalls + 1
    /\ UNCHANGED <<storeVars, canvasVars, now, chatVars, normInput, identVars, fallbackVars, authVars>>

NextNorm == NormalizeEdge

SpecNorm == InitNorm /\ [][NextNorm]_vars

----------------------------------------------------------------------------
(* The identifier specification: toIdentifier applied to an endpoint label *)

\* the characters labels are drawn from: an upper-case and a lower-case letter, a
\* digit, a space, a hyphen, an underscore and a full stop
LabelAlphabet == {"O", "c", "1", " ", "-", "_", "."}

\* the labels of length at most n over the alphabet
RECURSIVE LabelsUpTo(_)
LabelsUpTo(n) ==
    IF n = 0 THEN {""}
    ELSE LabelsUpTo(n - 1) \cup {l \o c : l \in {m \in LabelsUpTo(n - 1) : Len(m) = n - 1}, c \in LabelAlphabet}

\* the labels an endpoint may carry
LabelInputs == LabelsUpTo(MaxLabelLen) \cup {"Orden-Compra", "Detalle  Venta", "   "}

InitIdentifier ==
    /\ InitCanvas
    /\ InitChat
    /\ InitNormIdle
    /\ identLabel \in LabelInputs
    /\ identResult = Undefined
    /\ InitFallbackIdle
    /\ InitAuth

\* onConnect derives the fragment for an endpoint's label
ToIdentifier ==
    /\ identResult = Undefined
    /\ identResult' = toIdentifier(identLabel)
    /\ UNCHANGED <<storeVars, canvasVars, now, chatVars, normVars, identLabel, fallbackVars, authVars>>

NextIdentifier == ToIdentifier

SpecIdentifier == InitIdentifier /\ [][NextIdentifier]_vars

----------------------------------------------------------------------------
(* The fallback specification: buildFallbackDiagram applied to a prompt,    *)
(* whatever the canvas and the history hold.                                *)

\* the words prompts are made of: the four keywords in several letter cases, one of
\* them inside a longer word, one cut short, and a word that is no keyword
PromptWords == {"supermercado", "SuperMarket", "USUARIO", "posta", "usuari", "tienda"}

\* the prompts of at most n words
RECURSIVE PromptsUpTo(_)
PromptsUpTo(n) ==
    IF n = 0 THEN {""}
    ELSE PromptsUpTo(n - 1) \cup PromptWords
         \cup {p \o " " \o w : p \in PromptsUpTo(n - 1) \ {""}, w \in PromptWords}

FallbackPrompts == PromptsUpTo(MaxPromptWords) \cup {"Crea tablas Usuario y Post"}

\* what the canvas holds when the generator is called
FallbackCanvases ==
    {Graph(<<>>, <<>>), applyGraphToCanvas(Graph(<<>>, <<>>), GraphClientePedido, "k3x9")}

\* the history list the panel holds when the generator is called
FallbackHistories == {<<>>, Map(serviceList(1), mapHistoryItem)}

InitFallback ==
    /\ \E g \in FallbackCanvases : nodes = g.nodes /\ edges = g.edges
    /\ selectedRelationshipKind = "simple"
    /\ selectedSourceMult = "1"
    /\ selectedTargetMult = "*"
    /\ editingNode = <<>>
    /\ isEditorOpen = FALSE
    /\ editingEdge = <<>>
    /\ isRelationshipEditorOpen = FALSE
    /\ now = 1
    /\ prompt = DEFAULT_PROMPT
    /\ isLoading = TRUE
    /\ error = Undefined
    /\ history \in FallbackHistories
    /\ isHistoryLoading = FALSE
    /\ historyError = Undefined
    /\ activeHistoryId \in {Null} \cup {history[j].id : j \in 1..Len(history)}
    /\ deletingId = Null
    /\ isClearingHistory = FALSE
    /\ requests = <<>>
    /\ lastOutcome = Outcome("none", "none", Null, Null)
    /\ serverHistory = serviceList(Len(history))
    /\ serverNextId = Len(history) + 1
    /\ InitNormIdle
    /\ InitIdentIdle
    /\ fallbackPrompt \in FallbackPrompts
    /\ fallbackResult = <<>>
    /\ InitAuth

\* handleGenerate's catch block asks the generator for a graph
BuildFallbackDiagram ==
    /\ Len(fallbackResult) < MaxFallbackCalls
    /\ fallbackResult' = Append(fallbackResult, buildFallbackDiagram(fallbackPrompt))
    /\ UNCHANGED <<storeVars, canvasVars, now, chatVars, normVars, identVars, fallbackPrompt, authVars>>

NextFallback == BuildFallbackDiagram

SpecFallback == InitFallback /\ [][NextFallback]_vars

----------------------------------------------------------------------------
(* The chat specification: the prompt box, the history list, generation and *)
(* vision requests, and the history service that answers them.              *)

\* the chat panel's handlers leave the canvas controller, the tool selection and the clock alone
PanelFrame == UNCHANGED <<toolVars, canvasVars, now, normVars, identVars, fallbackVars, authVars>>

\* ... and, but for delete and clear-all, the two deletion flags as well
ChatFrame == PanelFrame /\ UNCHANGED adminVars

\* what the user types in the prompt box
PromptInputs == {"tienda"}

\* the type of the file picked for upload
FileTypes == {"image/png", "text/plain"}

\* what the generation service answers: a graph, or a graph with nothing in it
GenerationResults == {GraphDangling, Graph(<<>>, <<>>)}

\* what the vision service reads from an image
VisionResults == {GraphClientePedido}

payloadHistoryId(payload) == IF "history_id" \in DOMAIN payload THEN payload.history_id ELSE Null

\* loadHistory up to its await
StartLoadHistory(preserveNullSelection, after, adopt, slot) ==
    /\ isHistoryLoading' = TRUE
    /\ historyError' = Undefined
    /\ requests' = IF slot = 0
                   THEN Append(requests, historyRequest(preserveNullSelection, after, adopt))
                   ELSE [requests EXCEPT ![slot] = historyRequest(preserveNullSelection, after, adopt)]

\* textarea onChange
SetPrompt(text) ==
    /\ prompt' = text
    /\ UNCHANGED <<nodes, edges, isLoading, error, history, isHistoryLoading, historyError,
                   activeHistoryId, requests, lastOutcome, serverHistory, serverNextId>>
    /\ ChatFrame

HandleHistorySelect(entry, rnd) ==
    /\ Set(applyGraphToCanvas(store, entry.graph, rnd))
    /\ prompt' = entry.prompt
    /\ error' = Undefined
    /\ activeHistoryId' = entry.id
    /\ UNCHANGED <<isLoading, history, isHistoryLoading, historyError, requests, lastOutcome,
                   serverHistory, serverNextId>>
    /\ ChatFrame

\* variant: the pointer is left where it is
HandleNewConversation_mut ==
    /\ prompt' = ""
    /\ error' = Undefined
    /\ UNCHANGED <<nodes, edges, isLoading, history, isHistoryLoading, historyError, requests,
                   lastOutcome, serverHistory, serverNextId, activeHistoryId>>
    /\ ChatFrame

HandleNewConversation ==
    /\ prompt' = ""
    /\ error' = Undefined
    /\ activeHistoryId' = Null
    /\ UNCHANGED <<nodes, edges, isLoading, history, isHistoryLoading, historyError, requests,
                   lastOutcome, serverHistory, serverNextId>>
    /\ ChatFrame

\* the Actualizar button (disabled while isHistoryLoading)
RefreshHistory ==
    /\ ~isHistoryLoading
    /\ Len(requests) < MaxRequests
    /\ StartLoadHistory(activeHistoryId = Null, "none", Null, 0)
    /\ UNCHANGED <<nodes, edges, prompt, isLoading, error, history, activeHistoryId, lastOutcome,
                   serverHistory, serverNextId>>
    /\ ChatFrame

\* handleGenerate up to its await, with at most limit requests in flight
HandleGenerateUpTo(limit) ==
    /\ IF trim(prompt) = ""
       THEN /\ error' = "Escribe un prompt para generar el diagrama."
            /\ UNCHANGED <<isLoading, requests>>
       ELSE /\ Len(requests) < limit
            /\ isLoading' = TRUE
            /\ error' = Undefined
            /\ requests' = Append(requests,
                                  [op |-> "generate", stage |-> "sent", overtaken |-> FALSE,
                                   activeHistoryId |-> activeHistoryId,
                                   trimmed |-> trim(prompt),
                                   payload |-> generatePayload(trim(prompt), nodes, edges, activeHistoryId)])
    /\ UNCHANGED <<nodes, edges, prompt, history, isHistoryLoading, historyError, activeHistoryId,
                   lastOutcome, serverHistory, serverNextId>>
    /\ ChatFrame

\* handleGenerate up to its await (send button or Ctrl/Cmd+Enter)
HandleGenerate == HandleGenerateUpTo(MaxRequests)

\* handleProcessImage up to its await (the picker opens only while not isLoading)
HandleProcessImage(fileType) ==
    /\ ~isLoading
    /\ IF SubSeq(fileType, 1, 6) # "image/"
       THEN /\ error' = "Selecciona un archivo de imagen (png, jpg, svg, etc.)."
            /\ UNCHANGED <<isLoading, requests>>
       ELSE /\ Len(requests) < MaxRequests
            /\ isLoading' = TRUE
            /\ error' = Undefined
            /\ requests' = Append(requests,
                                  [op |-> "vision", stage |-> "sent", overtaken |-> FALSE,
                                   activeHistoryId |-> activeHistoryId,
                                   trimmedPrompt |-> trim(prompt),
                                   payload |-> visionPayload(trim(prompt), activeHistoryId)])
    /\ UNCHANGED <<nodes, edges, prompt, history, isHistoryLoading, historyError, activeHistoryId,
                   lastOutcome, serverHistory, serverNextId>>
    /\ ChatFrame

\* the service changes nothing the panel or the store holds
ClientFrame == UNCHANGED <<nodes, edges, prompt, isLoading, error, history, isHistoryLoading,
                           historyError, activeHistoryId, lastOutcome>>

\* POST /ai/generate is served
ServerGenerate(i, data) ==
    /\ i \in 1..Len(requests)
    /\ requests[i].op = "generate"
    /\ requests[i].stage = "sent"
    /\ LET historyId == payloadHistoryId(requests[i].payload)
           empty == data.nodes = <<>> /\ data.edges = <<>>
           created == ~empty /\ serverRecordId(serverHistory, historyId, serverNextId) = serverNextId
       IN /\ created => serverNextId <= MaxHistory
          /\ serverHistory' = IF empty THEN serverHistory
                              ELSE serverRecord(serverHistory, historyId, serverNextId,
                                                requests[i].payload.prompt, data)
          /\ serverNextId' = IF created THEN serverNextId + 1 ELSE serverNextId
    /\ requests' = [requests EXCEPT ![i] = Merge(@, [stage |-> "answered", response |-> data])]
    /\ ClientFrame
    /\ ChatFrame

\* POST /ai/vision is served
ServerVision(i, graph) ==
    /\ i \in 1..Len(requests)
    /\ requests[i].op = "vision"
    /\ requests[i].stage = "sent"
    /\ LET historyId == payloadHistoryId(requests[i].payload)
           text == Coalesce(requests[i].payload, "prompt", VisionCaption)
           id == serverRecordId(serverHistory, historyId, serverNextId)
       IN /\ id = serverNextId => serverNextId <= MaxHistory
          /\ serverHistory' = serverRecord(serverHistory, historyId, serverNextId, text, graph)
          /\ serverNextId' = IF id = serverNextId THEN serverNextId + 1 ELSE serverNextId
          /\ requests' = [requests EXCEPT ![i] =
                             Merge(@, [stage |-> "answered",
                                       response |-> [graph |-> graph, history_id |-> id, prompt |-> text]])]
    /\ ClientFrame
    /\ ChatFrame

\* an entry is deleted from the service's list by another session of the user
HistoryDeletedElsewhere(id) ==
    /\ serverHas(serverHistory, id)
    /\ serverHistory' = SelectSeq(serverHistory, LAMBDA item : item.id # id)
    /\ UNCHANGED <<requests, serverNextId>>
    /\ ClientFrame
    /\ ChatFrame

\* GET /ai/history is served
ServerList(i) ==
    /\ i \in 1..Len(requests)
    /\ requests[i].op = "history"
    /\ requests[i].stage = "sent"
    /\ requests' = [requests EXCEPT ![i] = Merge(@, [stage |-> "answered", response |-> serverHistory])]
    /\ UNCHANGED <<serverHistory, serverNextId>>
    /\ ClientFrame
    /\ ChatFrame

\* GET /ai/history fails (service unreachable or a non-2xx status)
ServerListFail(i) ==
    /\ i \in 1..Len(requests)
    /\ requests[i].op = "history"
    /\ requests[i].stage = "sent"
    /\ requests' = [requests EXCEPT ![i] = Merge(@, [stage |-> "failed"])]
    /\ UNCHANGED <<serverHistory, serverNextId>>
    /\ ClientFrame
    /\ ChatFrame

\* handleGenerate from the response to its next await or its end
GenerateSucceeded(i, rnd) ==
    /\ i \in 1..Len(requests)
    /\ requests[i].op = "generate"
    /\ requests[i].stage = "answered"
    /\ LET graph == responseGraph(requests[i].response)
           captured == closureActiveHistoryId(requests[i], activeHistoryId)
           continuingConversation == captured # Null
       IN IF isEmptyGraph(graph)
          THEN /\ error' = "La respuesta no contiene nodos ni relaciones."
               /\ isLoading' = FALSE
               /\ requests' = RemoveAt(requests, i)
               /\ UNCHANGED <<nodes, edges, history, isHistoryLoading, historyError, lastOutcome>>
          ELSE /\ Set(applyGraphToCanvas(store, graph, rnd))
               /\ error' = Undefined
               /\ IF continuingConversation
                  THEN /\ history' = patchGenerated(history, captured,
                                                    requests[i].trimmed, graph)
                       /\ isLoading' = FALSE
                       /\ requests' = RemoveAt(MarkOvertaken(requests, i), i)
                       /\ lastOutcome' = Merge(Outcome("generate", "patched", captured, Null),
                                               [overtaken |-> requests[i].overtaken])
                       /\ UNCHANGED <<isHistoryLoading, historyError>>
                  ELSE /\ isHistoryLoading' = TRUE
                       /\ historyError' = Undefined
                       /\ requests' = [MarkOvertaken(requests, i) EXCEPT ![i] = historyRequest(FALSE, "generate", Null)]
                       /\ lastOutcome' = Merge(Outcome("generate", "refetched", Null, Null),
                                               [overtaken |-> requests[i].overtaken])
                       /\ UNCHANGED <<history, isLoading>>
    /\ UNCHANGED <<prompt, activeHistoryId, serverHistory, serverNextId>>
    /\ ChatFrame

\* handleProcessImage from the response to its next await or its end
VisionSucceeded(i, rnd) ==
    /\ i \in 1..Len(requests)
    /\ requests[i].op = "vision"
    /\ requests[i].stage = "answered"
    /\ LET graph == requests[i].response.graph
           historyIdFromResponse == requests[i].response.history_id
           promptFromResponse == Coalesce(requests[i].response, "prompt", requests[i].trimmedPrompt)
           active == requests[i].activeHistoryId
       IN /\ Set(applyGraphToCanvas(store, graph, rnd))
          /\ prompt' = OrElse(promptFromResponse, requests[i].trimmedPrompt)
          /\ error' = Undefined
          /\ IF patchesInPlace(active, historyIdFromResponse)
             THEN /\ history' = patchVision(history, active, promptFromResponse, graph)
                  /\ activeHistoryId' = IF historyIdFromResponse # Null
                                        THEN historyIdFromResponse ELSE activeHistoryId
                  /\ isLoading' = FALSE
                  /\ requests' = RemoveAt(MarkOvertaken(requests, i), i)
                  /\ lastOutcome' = Merge(Outcome("vision", "patched", active, historyIdFromResponse),
                                          [overtaken |-> requests[i].overtaken])
                  /\ UNCHANGED <<isHistoryLoading, historyError>>
             ELSE /\ isHistoryLoading' = TRUE
                  /\ historyError' = Undefined
                  /\ requests' = [MarkOvertaken(requests, i) EXCEPT ![i] = historyRequest(FALSE, "vision", historyIdFromResponse)]
                  /\ lastOutcome' = Merge(Outcome("vision", "refetched", active, historyIdFromResponse),
                                          [overtaken |-> requests[i].overtaken])
                  /\ UNCHANGED <<history, activeHistoryId, isLoading>>
    /\ UNCHANGED <<serverHistory, serverNextId>>
    /\ ChatFrame

\* loadHistory from the response to its end, and then the handler that awaited it
LoadHistorySucceeded(i) ==
    /\ i \in 1..Len(requests)
    /\ requests[i].op = "history"
    /\ requests[i].stage = "answered"
    /\ LET mapped == Map(requests[i].response, mapHistoryItem)
           chosen == nextActive(mapped, activeHistoryId, requests[i].preserveNullSelection)
       IN /\ history' = mapped
          /\ activeHistoryId' = IF requests[i].after = "vision" /\ requests[i].adopt # Null
                                THEN requests[i].adopt ELSE chosen
    /\ isHistoryLoading' = FALSE
    /\ isLoading' = IF requests[i].after \in {"generate", "vision"} THEN FALSE ELSE isLoading
    /\ deletingId' = IF requests[i].after = "delete" THEN Null ELSE deletingId
    /\ requests' = RemoveAt(requests, i)
    /\ UNCHANGED <<nodes, edges, prompt, error, historyError, lastOutcome, serverHistory, serverNextId,
                   isClearingHistory>>
    /\ PanelFrame

\* loadHistory's catch and finally, and then the handler that awaited it
LoadHistoryFailed(i) ==
    /\ i \in 1..Len(requests)
    /\ requests[i].op = "history"
    /\ requests[i].stage = "failed"
    /\ historyError' = "No se pudo cargar el historial."
    /\ isHistoryLoading' = FALSE
    /\ activeHistoryId' = IF requests[i].after = "vision" /\ requests[i].adopt # Null
                          THEN requests[i].adopt ELSE activeHistoryId
    /\ isLoading' = IF requests[i].after \in {"generate", "vision"} THEN FALSE ELSE isLoading
    /\ deletingId' = IF requests[i].after = "delete" THEN Null ELSE deletingId
    /\ requests' = RemoveAt(requests, i)
    /\ UNCHANGED <<nodes, edges, prompt, error, history, lastOutcome, serverHistory, serverNextId,
                   isClearingHistory>>
    /\ PanelFrame

\* POST /ai/generate fails: no answer, or an error status
ServerGenerateFail(i, failure) ==
    /\ i \in 1..Len(requests)
    /\ requests[i].op = "generate"
    /\ requests[i].stage = "sent"
    /\ requests' = [requests EXCEPT ![i] = Merge(@, [stage |-> "failed", err |-> failure])]
    /\ UNCHANGED <<serverHistory, serverNextId>>
    /\ ClientFrame
    /\ ChatFrame

\* handleGenerate's catch and finally
GenerateFailed(i, rnd) ==
    /\ i \in 1..Len(requests)
    /\ requests[i].op = "generate"
    /\ requests[i].stage = "failed"
    /\ LET after == handleGenerateCatch(store, requests[i].err, requests[i].trimmed, rnd)
       IN /\ Set(after.graph)
          /\ error' = after.error
    /\ isLoading' = FALSE
    /\ requests' = RemoveAt(requests, i)
    /\ UNCHANGED <<prompt, history, isHistoryLoading, historyError, activeHistoryId, lastOutcome,
                   serverHistory, serverNextId>>
    /\ ChatFrame

\* the vision service fails: POST /ai/vision is answered with an error
ServerVisionFail(i, failure) ==
    /\ i \in 1..Len(requests)
    /\ requests[i].op = "vision"
    /\ requests[i].stage = "sent"
    /\ requests' = [requests EXCEPT ![i] = Merge(@, [stage |-> "failed", err |-> failure])]
    /\ UNCHANGED <<serverHistory, serverNextId>>
    /\ ClientFrame
    /\ ChatFrame

\* handleProcessImage (catch): the message shown for a failed upload
handleProcessImageCatch(err) ==
    IF err.detail \notin {Undefined, ""} THEN err.detail ELSE err.message

\* variant: the busy flag is cleared at the end of the try block only
VisionFailed_mut(i) ==
    /\ i \in 1..Len(requests)
    /\ requests[i].op = "vision"
    /\ requests[i].stage = "failed"
    /\ error' = handleProcessImageCatch(requests[i].err)
    /\ requests' = RemoveAt(requests, i)
    /\ UNCHANGED <<nodes, edges, prompt, history, isHistoryLoading, historyError, activeHistoryId,
                   lastOutcome, serverHistory, serverNextId, isLoading>>
    /\ ChatFrame

\* handleProcessImage (catch / finally)
VisionFailed(i) ==
    /\ i \in 1..Len(requests)
    /\ requests[i].op = "vision"
    /\ requests[i].stage = "failed"
    /\ error' = handleProcessImageCatch(requests[i].err)
    /\ isLoading' = FALSE
    /\ requests' = RemoveAt(requests, i)
    /\ UNCHANGED <<nodes, edges, prompt, history, isHistoryLoading, historyError, activeHistoryId,
                   lastOutcome, serverHistory, serverNextId>>
    /\ ChatFrame

NextChat ==
    \/ \E text \in PromptInputs : SetPrompt(text)
    \/ \E j \in 1..Len(history), rnd \in RandomSuffixes : HandleHistorySelect(history[j], rnd)
    \/ HandleNewConversation
    \/ RefreshHistory
    \/ HandleGenerate
    \/ \E fileType \in FileTypes : HandleProcessImage(fileType)
    \/ \E i \in 1..MaxRequests, data \in GenerationResults : ServerGenerate(i, data)
    \/ \E i \in 1..MaxRequests, graph \in VisionResults : ServerVision(i, graph)
    \/ \E id \in 1..MaxHistory : HistoryDeletedElsewhere(id)
    \/ \E i \in 1..MaxRequests : ServerList(i)
    \/ \E i \in 1..MaxRequests : ServerListFail(i)
    \/ \E i \in 1..MaxRequests, rnd \in RandomSuffixes : GenerateSucceeded(i, rnd)
    \/ \E i \in 1..MaxRequests, rnd \in RandomSuffixes : VisionSucceeded(i, rnd)
    \/ \E i \in 1..MaxRequests : LoadHistorySucceeded(i)
    \/ \E i \in 1..MaxRequests : LoadHistoryFailed(i)

SpecChat == Init /\ [][NextChat]_vars

----------------------------------------------------------------------------
(* The generation specification: a user with conversations from earlier     *)
(* sessions, whose history list has been loaded; prompts with and without a *)
(* fallback keyword; a service that answers or fails; the send button and   *)
(* the keyboard shortcut.                                                   *)

\* what the generation service answers
GenerateAnswers == {GraphDangling}

\* ChatPanel after the initial loadHistory() has been answered
InitGenerate ==
    /\ InitCanvas
    /\ prompt = DEFAULT_PROMPT
    /\ isLoading = FALSE
    /\ error = Undefined
    /\ history = Map(serviceList(MaxHistory), mapHistoryItem)
    /\ isHistoryLoading = FALSE
    /\ historyError = Undefined
    /\ activeHistoryId = nextActive(history, Null, FALSE)
    /\ deletingId = Null
    /\ isClearingHistory = FALSE
    /\ requests = <<>>
    /\ lastOutcome = Outcome("none", "none", Null, Null)
    /\ serverHistory = serviceList(MaxHistory)
    /\ serverNextId = MaxHistory + 1
    /\ InitNormIdle
    /\ InitIdentIdle
    /\ InitFallbackIdle
    /\ InitAuth

\* the Enviar al lienzo button (disabled while isLoading)
SendButton ==
    /\ ~isLoading
    /\ HandleGenerateUpTo(MaxOverlap)

\* handleKeyPress: Ctrl/Cmd+Enter in the prompt box
HandleKeyPress == HandleGenerateUpTo(MaxOverlap)

NextGenerate ==
    \/ \E j \in 1..Len(history), rnd \in RandomSuffixes : HandleHistorySelect(history[j], rnd)
    \/ SendButton
    \/ HandleKeyPress
    \/ \E i \in 1..MaxOverlap, data \in GenerateAnswers : ServerGenerate(i, data)
    \/ \E i \in 1..MaxOverlap, failure \in GenerationFailures : ServerGenerateFail(i, failure)
    \/ \E i \in 1..MaxOverlap, rnd \in RandomSuffixes : GenerateSucceeded(i, rnd)
    \/ \E i \in 1..MaxOverlap, rnd \in RandomSuffixes : GenerateFailed(i, rnd)

SpecGenerate == InitGenerate /\ [][NextGenerate]_vars

----------------------------------------------------------------------------
(* The submission specification: the same user types prompts, some of them  *)
(* blank, and picks files, some of them no images; the service answers,     *)
(* sometimes with a graph that holds nothing.                               *)

\* what the user types in the prompt box
SubmitPrompts == {"", "  ", "tienda"}

NextSubmit ==
    \/ \E text \in SubmitPrompts : SetPrompt(text)
    \/ \E j \in 1..Len(history), rnd \in RandomSuffixes : HandleHistorySelect(history[j], rnd)
    \/ HandleGenerate
    \/ \E fileType \in FileTypes : HandleProcessImage(fileType)
    \/ \E i \in 1..MaxRequests, data \in GenerationResults : ServerGenerate(i, data)
    \/ \E i \in 1..MaxRequests, graph \in VisionResults : ServerVision(i, graph)
    \/ \E i \in 1..MaxRequests, rnd \in RandomSuffixes : GenerateSucceeded(i, rnd)
    \/ \E i \in 1..MaxRequests, rnd \in RandomSuffixes : VisionSucceeded(i, rnd)

SpecSubmit == InitGenerate /\ [][NextSubmit]_vars

----------------------------------------------------------------------------
(* The history specification: a user with entries from earlier sessions     *)
(* selects, deletes and clears them.                                        *)

InitHistory ==
    /\ InitCanvas
    /\ InitPanel
    /\ \E n \in 0..MaxHistory : serverHistory = serviceList(n) /\ serverNextId = n + 1
    /\ InitNormIdle
    /\ InitIdentIdle
    /\ InitFallbackIdle
    /\ InitAuth

\* deletingId, historyError and the requests in flight
panel == [deletingId |-> deletingId, historyError |-> historyError, requests |-> requests]

\* the Eliminar button of an entry (disabled while that entry is being deleted); the
\* handler returns at once while a clear-all is in progress
HandleDeleteEntry(historyId) ==
    /\ deletingId # historyId
    /\ LET after == handleDeleteEntry(isClearingHistory, panel, historyId)
       IN /\ Len(after.requests) <= MaxHistoryRequests
          /\ deletingId' = after.deletingId
          /\ historyError' = after.historyError
          /\ requests' = after.requests
    /\ UNCHANGED <<nodes, edges, prompt, isLoading, error, history, isHistoryLoading, activeHistoryId,
                   isClearingHistory, lastOutcome, serverHistory, serverNextId>>
    /\ PanelFrame

\* the Borrar todo button (disabled while isClearingHistory or with an empty list)
HandleClearHistory ==
    /\ ~isClearingHistory
    /\ Len(history) # 0
    /\ Len(requests) < MaxHistoryRequests
    /\ isClearingHistory' = TRUE
    /\ historyError' = Undefined
    /\ requests' = Append(requests, [op |-> "clear", stage |-> "sent"])
    /\ UNCHANGED <<nodes, edges, prompt, isLoading, error, history, isHistoryLoading, activeHistoryId,
                   deletingId, lastOutcome, serverHistory, serverNextId>>
    /\ PanelFrame

\* DELETE /ai/history/<id> is served: the entry is removed, or there is none to remove
ServerDelete(i) ==
    /\ i \in 1..Len(requests)
    /\ requests[i].op = "delete"
    /\ requests[i].stage = "sent"
    /\ IF serverHas(serverHistory, requests[i].historyId)
       THEN /\ serverHistory' = SelectSeq(serverHistory, LAMBDA item : item.id # requests[i].historyId)
            /\ requests' = [requests EXCEPT ![i] = Merge(@, [stage |-> "answered"])]
       ELSE /\ serverHistory' = serverHistory
            /\ requests' = [requests EXCEPT ![i] = Merge(@, [stage |-> "failed"])]
    /\ UNCHANGED <<serverNextId, adminVars>>
    /\ ClientFrame
    /\ PanelFrame

\* DELETE /ai/history is served
ServerClear(i) ==
    /\ i \in 1..Len(requests)
    /\ requests[i].op = "clear"
    /\ requests[i].stage = "sent"
    /\ serverHistory' = <<>>
    /\ requests' = [requests EXCEPT ![i] = Merge(@, [stage |-> "answered"])]
    /\ UNCHANGED <<serverNextId, adminVars>>
    /\ ClientFrame
    /\ PanelFrame

\* a DELETE fails (service unreachable or a non-2xx status)
ServerDeleteFail(i) ==
    /\ i \in 1..Len(requests)
    /\ requests[i].op \in {"delete", "clear"}
    /\ requests[i].stage = "sent"
    /\ requests' = [requests EXCEPT ![i] = Merge(@, [stage |-> "failed"])]
    /\ UNCHANGED <<serverHistory, serverNextId, adminVars>>
    /\ ClientFrame
    /\ PanelFrame

\* handleDeleteEntry from the DELETE's response to the await of loadHistory
DeleteSucceeded(i) ==
    /\ i \in 1..Len(requests)
    /\ requests[i].op = "delete"
    /\ requests[i].stage = "answered"
    /\ isHistoryLoading' = TRUE
    /\ historyError' = Undefined
    /\ requests' = [requests EXCEPT ![i] = deleteRefetch(requests[i].historyId)]
    /\ UNCHANGED <<nodes, edges, prompt, isLoading, error, history, activeHistoryId, adminVars,
                   lastOutcome, serverHistory, serverNextId>>
    /\ PanelFrame

\* handleDeleteEntry's catch and finally
DeleteFailed(i) ==
    /\ i \in 1..Len(requests)
    /\ requests[i].op = "delete"
    /\ requests[i].stage = "failed"
    /\ historyError' = "No se pudo eliminar la entrada."
    /\ deletingId' = Null
    /\ requests' = RemoveAt(requests, i)
    /\ UNCHANGED <<nodes, edges, prompt, isLoading, error, history, isHistoryLoading, activeHistoryId,
                   isClearingHistory, lastOutcome, serverHistory, serverNextId>>
    /\ PanelFrame

\* handleClearHistory from the DELETE's response to its end
\* the requests still in flight when a clear-all completes were started before it
\* (observer; the code keeps no such mark)
MarkBeforeClear(list) == [j \in 1..Len(list) |-> Merge(list[j], [beforeClear |-> TRUE])]

ClearSucceeded(i) ==
    /\ i \in 1..Len(requests)
    /\ requests[i].op = "clear"
    /\ requests[i].stage = "answered"
    /\ history' = afterClearHistory.history
    /\ activeHistoryId' = afterClearHistory.activeHistoryId
    /\ prompt' = afterClearHistory.prompt
    /\ isClearingHistory' = FALSE
    /\ deletingId' = Null
    /\ requests' = MarkBeforeClear(RemoveAt(requests, i))
    /\ UNCHANGED <<nodes, edges, isLoading, error, isHistoryLoading, historyError, lastOutcome,
                   serverHistory, serverNextId>>
    /\ PanelFrame

\* variant: the list is emptied before the service has confirmed
ClearFailed_mut(i) ==
    /\ i \in 1..Len(requests)
    /\ requests[i].op = "clear"
    /\ requests[i].stage = "failed"
    /\ historyError' = "No se pudo limpiar el historial."
    /\ history' = <<>>
    /\ isClearingHistory' = FALSE
    /\ deletingId' = Null
    /\ requests' = RemoveAt(requests, i)
    /\ UNCHANGED <<nodes, edges, prompt, isLoading, error, isHistoryLoading, activeHistoryId,
                   lastOutcome, serverHistory, serverNextId>>
    /\ PanelFrame

\* handleClearHistory's catch and finally
ClearFailed(i) ==
    /\ i \in 1..Len(requests)
    /\ requests[i].op = "clear"
    /\ requests[i].stage = "failed"
    /\ historyError' = "No se pudo limpiar el historial."
    /\ isClearingHistory' = FALSE
    /\ deletingId' = Null
    /\ requests' = RemoveAt(requests, i)
    /\ UNCHANGED <<nodes, edges, prompt, isLoading, error, history, isHistoryLoading, activeHistoryId,
                   lastOutcome, serverHistory, serverNextId>>
    /\ PanelFrame

NextHistory ==
    \/ \E j \in 1..Len(history), rnd \in RandomSuffixes : HandleHistorySelect(history[j], rnd)
    \/ HandleNewConversation
    \/ RefreshHistory
    \/ \E j \in 1..Len(history) : HandleDeleteEntry(history[j].id)
    \/ HandleClearHistory
    \/ \E id \in 1..MaxHistory : HistoryDeletedElsewhere(id)
    \/ \E i \in 1..MaxHistoryRequests : ServerList(i)
    \/ \E i \in 1..MaxHistoryRequests : ServerListFail(i)
    \/ \E i \in 1..MaxHistoryRequests : ServerDelete(i)
    \/ \E i \in 1..MaxHistoryRequests : ServerClear(i)
    \/ \E i \in 1..MaxHistoryRequests : ServerDeleteFail(i)
    \/ \E i \in 1..MaxHistoryRequests : DeleteSucceeded(i)
    \/ \E i \in 1..MaxHistoryRequests : DeleteFailed(i)
    \/ \E i \in 1..MaxHistoryRequests : ClearSucceeded(i)
    \/ \E i \in 1..MaxHistoryRequests : ClearFailed(i)
    \/ \E i \in 1..MaxHistoryRequests : LoadHistorySucceeded(i)
    \/ \E i \in 1..MaxHistoryRequests : LoadHistoryFailed(i)

SpecHistory == InitHistory /\ [][NextHistory]_vars

\* The busy-flag specification of the panel: a generation, an upload, a
\* refresh, a delete or a clear-all is started when nothing else is in flight,
\* the services answer or fail, and every request that was sent is eventually
\* answered and its answer eventually handled.
NextBusy ==
    \/ RefreshHistory
    \/ HandleGenerate
    \/ \E fileType \in FileTypes : HandleProcessImage(fileType)
    \/ \E j \in 1..Len(history) : requests = <<>> /\ HandleDeleteEntry(history[j].id)
    \/ requests = <<>> /\ HandleClearHistory
    \/ \E i \in 1..MaxRequests, data \in GenerationResults : ServerGenerate(i, data)
    \/ \E i \in 1..MaxRequests, failure \in GenerationFailures : ServerGenerateFail(i, failure)
    \/ \E i \in 1..MaxRequests, graph \in VisionResults : ServerVision(i, graph)
    \/ \E i \in 1..MaxRequests, failure \in GenerationFailures : ServerVisionFail(i, failure)
    \/ \E i \in 1..MaxRequests : ServerList(i)
    \/ \E i \in 1..MaxRequests : ServerListFail(i)
    \/ \E i \in 1..MaxRequests : ServerDelete(i)
    \/ \E i \in 1..MaxRequests : ServerClear(i)
    \/ \E i \in 1..MaxRequests : ServerDeleteFail(i)
    \/ \E i \in 1..MaxRequests, rnd \in RandomSuffixes : GenerateSucceeded(i, rnd)
    \/ \E i \in 1..MaxRequests, rnd \in RandomSuffixes : GenerateFailed(i, rnd)
    \/ \E i \in 1..MaxRequests, rnd \in RandomSuffixes : VisionSucceeded(i, rnd)
    \/ \E i \in 1..MaxRequests : VisionFailed(i)
    \/ \E i \in 1..MaxRequests : LoadHistorySucceeded(i)
    \/ \E i \in 1..MaxRequests : LoadHistoryFailed(i)
    \/ \E i \in 1..MaxRequests : DeleteSucceeded(i)
    \/ \E i \in 1..MaxRequests : DeleteFailed(i)
    \/ \E i \in 1..MaxRequests : ClearSucceeded(i)
    \/ \E i \in 1..MaxRequests : ClearFailed(i)

\* the request in slot i moves on: the service answers it or fails, or the
\* handler that awaits it runs on
Completes(i) ==
    \/ \E data \in GenerationResults : ServerGenerate(i, data)
    \/ \E failure \in GenerationFailures : ServerGenerateFail(i, failure)
    \/ \E graph \in VisionResults : ServerVision(i, graph)
    \/ \E failure \in GenerationFailures : ServerVisionFail(i, failure)
    \/ ServerList(i) \/ ServerListFail(i) \/ ServerDelete(i) \/ ServerClear(i) \/ ServerDeleteFail(i)
    \/ \E rnd \in RandomSuffixes : GenerateSucceeded(i, rnd) \/ GenerateFailed(i, rnd) \/ VisionSucceeded(i, rnd)
    \/ VisionFailed(i) \/ LoadHistorySucceeded(i) \/ LoadHistoryFailed(i)
    \/ DeleteSucceeded(i) \/ DeleteFailed(i) \/ ClearSucceeded(i) \/ ClearFailed(i)

\* slot i holds a request; this is when Completes(i) can happen
InFlight(i) == i \in 1..Len(requests)

\* Weak fairness of Completes(i), with its enabling condition written out as the
\* state predicate InFlight(i): a request is not left in flight forever.
SpecBusy ==
    /\ InitHistory
    /\ [][NextBusy]_vars
    /\ \A i \in 1..MaxRequests : ([]<>(~InFlight(i)) \/ []<><<Completes(i)>>_vars)

----------------------------------------------------------------------------
(* Properties *)

\* C1: after removeNode(id) completes (called by handleDeleteNode) the graph holds
\* no entity with that id and no relationship whose source or target is id, and
\* every other entity and relationship is still there, unchanged and in its
\* previous relative order.
C1_RemoveNodeCascade ==
    [][\A id \in Ids(nodes) \ Ids(nodes') :
          HandleDeleteNode(id) =>
              /\ \A i \in 1..Len(nodes') : Get(nodes'[i], "id") # id
              /\ \A i \in 1..Len(edges') :
                    Get(edges'[i], "source") # id /\ Get(edges'[i], "target") # id
              /\ nodes' = SelectSeq(nodes, LAMBDA node : Get(node, "id") # id)
              /\ edges' = SelectSeq(edges, LAMBDA edge : Get(edge, "source") # id
                                                         /\ Get(edge, "target") # id)]_vars

\* a join entity is left without its source entity: the entity and the
\* relationship from it are gone, the join entity and the relationship to the
\* target are still there
C1_Witness ==
    \E i \in 1..Len(nodes) :
        /\ Get(nodes[i], "id") = joinId("a", "b", 1)
        /\ "a" \notin Ids(nodes)
        /\ "b" \in Ids(nodes)
        /\ Len(edges) = 1
        /\ edges[1].source = joinId("a", "b", 1)
        /\ edges[1].target = "b"

\* C2: once a store mutation has completed, every relationship's source and
\* target is the id of an entity currently in the graph.
C2_ReferentialIntegrity ==
    \A i \in 1..Len(edges) :
        Get(edges[i], "source") \in Ids(nodes) /\ Get(edges[i], "target") \in Ids(nodes)

\* C3: a connection gesture takes the many-to-many path exactly when the tool is
\* segmentada with '*' and '*'; on that path the graph gains exactly one entity
\* (3 columns: one pk, two foreign keys) and exactly two relationships, none of
\* them between the two original entities; on any other selection no entity is
\* added.
C3_ManyToManyPath ==
    [][\A source \in Ids(nodes), target \in Ids(nodes), t2 \in 1..MaxNow :
          OnConnect(source, target, t2) =>
              IF selectedRelationshipKind = "segmentada"
                 /\ selectedSourceMult = "*" /\ selectedTargetMult = "*"
              THEN /\ Len(nodes') = Len(nodes) + 1
                   /\ SubSeq(nodes', 1, Len(nodes)) = nodes
                   /\ LET columns == nodes'[Len(nodes')].data.columns
                      IN /\ Len(columns) = 3
                         /\ Cardinality({c \in 1..3 : "pk" \in DOMAIN columns[c] /\ columns[c].pk = TRUE}) = 1
                         /\ Cardinality({c \in 1..3 : "pk" \notin DOMAIN columns[c]
                                                      /\ SubSeq(columns[c].name,
                                                                Len(columns[c].name) - 2,
                                                                Len(columns[c].name)) = "_id"}) = 2
                   /\ Len(edges') = Len(edges) + 2
                   /\ SubSeq(edges', 1, Len(edges)) = edges
                   /\ \A i \in (Len(edges) + 1)..Len(edges') :
                         ~(edges'[i].source \in {source, target} /\ edges'[i].target \in {source, target})
              ELSE nodes' = nodes]_vars

\* C4: in every state the canvas reaches, the join entity the many-to-many path
\* synthesizes for a gesture has label sourceLabel_targetLabel,
\* isJoin = true, joinOf = [sourceLabel, targetLabel] and exactly the columns id
\* (INT, pk, not nullable), <source-fragment>_id and <target-fragment>_id (INT,
\* not pk, not nullable), in this order; for Cliente and Pedido: Cliente_Pedido
\* with id, cliente_id, pedido_id.
C4_JoinEntity ==
    isManyToMany(selectedRelationshipKind, selectedSourceMult, selectedTargetMult) =>
        \A source \in Ids(nodes), target \in Ids(nodes), t2 \in now..Min(now + 1, MaxNow) :
            LET after == onConnect(store, selectedRelationshipKind, selectedSourceMult,
                                   selectedTargetMult, source, target, now, t2)
                sourceLabel == endpointLabel(nodes, source)
                targetLabel == endpointLabel(nodes, target)
                join == Find(after.nodes, joinId(source, target, now))
            IN /\ join # <<>>
               /\ join[1].data.label = sourceLabel \o "_" \o targetLabel
               /\ join[1].data.isJoin = TRUE
               /\ join[1].data.joinOf = <<sourceLabel, targetLabel>>
               /\ Len(join[1].data.columns) = 3
               /\ LET c == join[1].data.columns
                  IN /\ c[1].name = "id" /\ c[1].type = "INT" /\ c[1].pk = TRUE /\ c[1].nullable = FALSE
                     /\ c[2].name = toIdentifier(sourceLabel) \o "_id"
                     /\ c[3].name = toIdentifier(targetLabel) \o "_id"
                     /\ \A k \in {2, 3} : /\ c[k].type = "INT"
                                          /\ ("pk" \in DOMAIN c[k] => c[k].pk # TRUE)
                                          /\ c[k].nullable = FALSE
                     /\ (sourceLabel = "Cliente" /\ targetLabel = "Pedido") =>
                            /\ join[1].data.label = "Cliente_Pedido"
                            /\ <<c[1].name, c[2].name, c[3].name>> = <<"id", "cliente_id", "pedido_id">>

\* the join entity of Cliente and Pedido is on the canvas
C4_Witness ==
    \E i \in 1..Len(nodes) :
        /\ "isJoin" \in DOMAIN nodes[i].data
        /\ nodes[i].data.label = "Cliente_Pedido"
        /\ nodes[i].data.joinOf = <<"Cliente", "Pedido">>

\* C5: the many-to-many path creates exactly two relationships, both simple with
\* an empty label, with ids distinct from each other and from every relationship
\* already in the graph: source -> join with (selected source multiplicity, '1')
\* and join -> target with ('1', selected target multiplicity).
C5_JoinRelationships ==
    [][\A source \in Ids(nodes), target \in Ids(nodes), t2 \in 1..MaxNow :
          (OnConnect(source, target, t2)
           /\ isManyToMany(selectedRelationshipKind, selectedSourceMult, selectedTargetMult)) =>
              /\ Len(edges') = Len(edges) + 2
              /\ SubSeq(edges', 1, Len(edges)) = edges
              /\ LET left == edges'[Len(edges) + 1]
                     right == edges'[Len(edges) + 2]
                     join == joinId(source, target, now)
                 IN /\ left.id # right.id
                    /\ left.id \notin Ids(edges) /\ right.id \notin Ids(edges)
                    /\ \A e \in {left, right} : /\ e.data.kind = "simple"
                                                /\ e.data.label = "" /\ e.label = ""
                    /\ left.source = source /\ left.target = join
                    /\ left.data.sourceMult = selectedSourceMult /\ left.data.targetMult = "1"
                    /\ right.source = join /\ right.target = target
                    /\ right.data.sourceMult = "1" /\ right.data.targetMult = selectedTargetMult]_vars

\* C6: normalization is idempotent: what normalizeEdge returned, for a
\* relationship with any subset of top-level and nested fields and a valid or
\* invalid kind, is returned unchanged by normalizeEdge.
C6_NormalizeIdempotent ==
    normCalls >= 1 => normalizeEdge(normEdge) = normEdge

\* the normalizer has run twice on a relationship whose bundle has a kind outside
\* the closed set and no multiplicities
C6_Witness ==
    /\ normCalls = 2
    /\ "data" \in DOMAIN normInput
    /\ Get(normInput.data, "kind") = "herencia"
    /\ "sourceMult" \notin DOMAIN normInput.data
    /\ normEdge.data.kind = "simple"

\* C7: normalizeEdge(e) has a fully populated bundle: kind is the input kind if it
\* is one of the four valid kinds and 'simple' otherwise; sourceMult, targetMult
\* and label are the input value or '1', '*', '' when absent; id, source and
\* target are the nested value when present and the top-level value otherwise.
\* An edge with only source and target gets simple, '1', '*', ''.
C7_NormalizeFields ==
    normCalls >= 1 =>
        LET bundle == IF "data" \in DOMAIN normInput THEN normInput.data ELSE EmptyObject
            present(k) == k \in DOMAIN bundle /\ bundle[k] # Undefined
            given(k, default) == IF present(k) THEN bundle[k] ELSE default
            out == normEdge.data
        IN /\ {"id", "source", "target", "kind", "sourceMult", "targetMult", "label"} \subseteq DOMAIN out
           /\ out.kind = IF present("kind")
                            /\ bundle.kind \in {"simple", "flechaBlanca", "flechaNegra", "segmentada"}
                         THEN bundle.kind ELSE "simple"
           /\ out.sourceMult = given("sourceMult", "1")
           /\ out.targetMult = given("targetMult", "*")
           /\ out.label = given("label", "")
           /\ out.id = given("id", Get(normInput, "id"))
           /\ out.source = given("source", Get(normInput, "source"))
           /\ out.target = given("target", Get(normInput, "target"))
           /\ \A k \in DOMAIN normInput \ {"data"} : normEdge[k] = normInput[k]
           /\ normInput = [source |-> "a", target |-> "b"] =>
                  out = [id |-> Undefined, source |-> "a", target |-> "b", kind |-> "simple",
                         sourceMult |-> "1", targetMult |-> "*", label |-> ""]

\* the normalizer has run on the relationship that has only source and target
C7_Witness ==
    /\ normCalls = 1
    /\ normInput = [source |-> "a", target |-> "b"]
    /\ normEdge.data.kind = "simple"
    /\ normEdge.data.targetMult = "*"

\* C8: every relationship held in the store is in normalized form,
\* normalizeEdge(e) = e, in every reachable state of the store.
C8_StoredEdgesNormalized ==
    \A i \in 1..Len(edges) : normalizeEdge(edges[i]) = edges[i]

\* the store holds a relationship whose bundle was replaced by updateEdge and
\* one that entered with a kind outside the closed set
C8_Witness ==
    /\ \E i \in 1..Len(edges) : /\ edges[i].data.kind = "flechaBlanca"
                                /\ edges[i].data.targetMult = "*"
    /\ \E i \in 1..Len(edges) : /\ edges[i].data.sourceMult = "N"
                                /\ edges[i].data.kind = "simple"

\* a generation response with a graph that is not empty is waiting in slot i
GenerationAnswered(i) ==
    /\ i \in 1..Len(requests)
    /\ requests[i].op = "generate"
    /\ requests[i].stage = "answered"
    /\ ~(responseGraph(requests[i].response).nodes = <<>>
         /\ responseGraph(requests[i].response).edges = <<>>)

\* the list after the step has the entries of the list before it, in order, and
\* only the entry with this id differs, in the fields prompt and graph at most
OnlyEntryPatched(id) ==
    /\ Len(history') = Len(history)
    /\ \A j \in 1..Len(history) :
          /\ DOMAIN history'[j] = DOMAIN history[j]
          /\ \A k \in DOMAIN history[j] :
                (history[j].id # id \/ k \notin {"prompt", "graph"}) => history'[j][k] = history[j][k]

\* the step ends the handler in slot i without a request for the history list
NoRefetch(i) ==
    /\ Len(requests') = Len(requests) - 1
    /\ \A j \in 1..Len(requests') :
          /\ requests'[j].op = RemoveAt(requests, i)[j].op
          /\ requests'[j].stage = RemoveAt(requests, i)[j].stage

\* the step leaves in slot i a request for the whole history list
Refetch(i) ==
    /\ Len(requests') = Len(requests)
    /\ requests'[i].op = "history"
    /\ requests'[i].stage = "sent"

\* C9 as stated: after a successful generation or vision call the history list
\* is patched in place, with no refetch, if and only if the pointer was non-null
\* and the response reported that same id; otherwise the list is refetched.
C9_PatchIffReportedSameId ==
    [][\A i \in 1..MaxRequests, rnd \in RandomSuffixes :
          ((GenerationAnswered(i) /\ GenerateSucceeded(i, rnd)) \/ VisionSucceeded(i, rnd)) =>
              LET active == requests[i].activeHistoryId
                  reported == IF requests[i].op = "vision" THEN requests[i].response.history_id ELSE Null
              IN IF active # Null /\ reported = active
                 THEN NoRefetch(i) /\ OnlyEntryPatched(active) /\ activeHistoryId' = activeHistoryId
                 ELSE Refetch(i)]_vars

\* C9, amended: a vision response patches the list in place (no refetch) exactly
\* when the pointer captured at submission was non-null and the response reports
\* that id, and the pointer is then that id; otherwise the list is refetched and,
\* when the refetch ends, the pointer is the reported id.  A generation response
\* reports no id: it patches in place exactly when the captured pointer was
\* non-null and leaves the pointer alone; otherwise the list is refetched and the
\* pointer is the one loadHistory chooses.
C9_Reconcile ==
    [][\A i \in 1..MaxRequests, rnd \in RandomSuffixes :
          /\ (GenerationAnswered(i) /\ GenerateSucceeded(i, rnd)) =>
                /\ activeHistoryId' = activeHistoryId
                /\ IF requests[i].activeHistoryId # Null
                   THEN /\ NoRefetch(i)
                        /\ OnlyEntryPatched(requests[i].activeHistoryId)
                        /\ \A j \in 1..Len(history) :
                              history[j].id = requests[i].activeHistoryId =>
                                  /\ history'[j].prompt = requests[i].payload.prompt
                                  /\ history'[j].graph = requests[i].response
                   ELSE Refetch(i) /\ history' = history
          /\ VisionSucceeded(i, rnd) =>
                IF requests[i].activeHistoryId # Null
                   /\ requests[i].response.history_id = requests[i].activeHistoryId
                THEN /\ NoRefetch(i)
                     /\ OnlyEntryPatched(requests[i].activeHistoryId)
                     /\ \A j \in 1..Len(history) :
                           history[j].id = requests[i].activeHistoryId =>
                               /\ history'[j].prompt = IF requests[i].response.prompt # ""
                                                        THEN requests[i].response.prompt
                                                        ELSE history[j].prompt
                               /\ history'[j].graph = requests[i].response.graph
                     /\ activeHistoryId' = requests[i].activeHistoryId
                ELSE /\ Refetch(i)
                     /\ history' = history
                     /\ activeHistoryId' = activeHistoryId
                     /\ requests'[i].adopt = requests[i].response.history_id
          /\ ((LoadHistorySucceeded(i) \/ LoadHistoryFailed(i))
              /\ requests[i].after = "vision" /\ requests[i].adopt # Null) =>
                activeHistoryId' = requests[i].adopt
          /\ (LoadHistorySucceeded(i) /\ requests[i].after = "generate") =>
                /\ Ids(history') = {serverItem.id : serverItem \in {requests[i].response[j] : j \in 1..Len(requests[i].response)}}
                /\ IF activeHistoryId # Null /\ activeHistoryId \in Ids(history')
                   THEN activeHistoryId' = activeHistoryId
                   ELSE IF history' = <<>> THEN activeHistoryId' = Null
                   ELSE activeHistoryId' = history'[1].id]_vars

\* a vision call submitted with a non-null pointer came back reporting another
\* id: the list was refetched and the pointer is now the reported id
C9_Witness ==
    /\ requests = <<>>
    /\ lastOutcome.op = "vision"
    /\ lastOutcome.branch = "refetched"
    /\ lastOutcome.active # Null
    /\ lastOutcome.reported # lastOutcome.active
    /\ activeHistoryId = lastOutcome.reported
    /\ activeHistoryId \in Ids(history)

C11_HistorySelectLoadsSnapshot ==
    [][\A j \in 1..Len(history) : \A rnd \in RandomSuffixes :
           HandleHistorySelect(history[j], rnd) =>
               LET snapshot == history[j].graph
               IN /\ nodes' = snapshot.nodes
                  /\ Len(edges') = Len(snapshot.edges)
                  /\ \A k \in 1..Len(snapshot.edges) :
                         /\ normalizeEdge(edges'[k]) = edges'[k]
                         /\ Get(edges'[k], "id") = Get(snapshot.edges[k], "id")
                         /\ Get(edges'[k], "source") = Get(snapshot.edges[k], "source")
                         /\ Get(edges'[k], "target") = Get(snapshot.edges[k], "target")
                         /\ edges'[k].data.kind \in {RelationshipKinds[x] : x \in 1..Len(RelationshipKinds)}
                  /\ prompt' = history[j].prompt
                  /\ activeHistoryId' = history[j].id]_vars

\* an entry with entities and a relationship is selected and on the canvas
C11_Witness ==
    \E j \in 1..Len(history) :
        /\ activeHistoryId = history[j].id
        /\ prompt = history[j].prompt
        /\ nodes = history[j].graph.nodes
        /\ Len(nodes) > 0
        /\ Len(edges) > 0
        /\ edges # history[j].graph.edges

\* the refetch that follows a successful delete has been answered
DeleteRefreshed(i) ==
    /\ LoadHistorySucceeded(i)
    /\ requests[i].after = "delete"

\* C12 (as claimed): after a successful delete, if the deleted entry was the
\* active one the pointer becomes the first entry of the refreshed list, or
\* null if the list is empty; otherwise the pointer is unchanged.
C12_PointerAfterDelete ==
    [][\A i \in 1..Len(requests) :
           DeleteRefreshed(i) =>
               IF activeHistoryId = requests[i].historyId
               THEN activeHistoryId' = (IF Len(history') > 0 THEN history'[1].id ELSE Null)
               ELSE activeHistoryId' = activeHistoryId]_vars

\* C12 (amended): after a successful delete and a successful refetch, a pointer
\* that is null stays null, a pointer that names an entry of the refreshed list
\* is unchanged, and any other pointer (the deleted entry's, or one that names
\* an entry the service no longer lists) becomes the first entry of the
\* refreshed list, or null if the list is empty; if the refetch fails, the list
\* and the pointer are left as they were.
C12_PointerAfterDeleteRefetch ==
    [][\A i \in 1..Len(requests) :
           /\ DeleteRefreshed(i) =>
                  LET listed == \E j \in 1..Len(history') : history'[j].id = activeHistoryId
                  IN /\ history' = Map(requests[i].response, mapHistoryItem)
                     /\ \A j \in 1..Len(history') : history'[j].id # requests[i].historyId
                     /\ activeHistoryId = Null => activeHistoryId' = Null
                     /\ activeHistoryId # Null /\ listed => activeHistoryId' = activeHistoryId
                     /\ activeHistoryId # Null /\ ~listed =>
                            activeHistoryId' = (IF Len(history') > 0 THEN history'[1].id ELSE Null)
                     /\ activeHistoryId = requests[i].historyId =>
                            activeHistoryId' = (IF Len(history') > 0 THEN history'[1].id ELSE Null)
           /\ (LoadHistoryFailed(i) /\ requests[i].after = "delete") =>
                  /\ history' = history
                  /\ activeHistoryId' = activeHistoryId]_vars

\* the active entry has been deleted and the pointer fell back to the entry that remains
C12_Witness ==
    /\ Len(history) = 1
    /\ activeHistoryId = history[1].id
    /\ Len(serverHistory) = 1
    /\ deletingId = Null
    /\ requests = <<>>
    /\ nodes # <<>>
    /\ \A j \in 1..Len(nodes) : nodes[j] \notin {history[1].graph.nodes[k] : k \in 1..Len(history[1].graph.nodes)}

\* C13: a successful clear-all empties the local history list, resets the
\* active pointer to null and the prompt box to the default seed text, and
\* leaves the entities and relationships of the store as they were.
C13_ClearAll ==
    [][\A i \in 1..Len(requests) :
           ClearSucceeded(i) =>
               /\ history' = <<>>
               /\ activeHistoryId' = Null
               /\ prompt' = DEFAULT_PROMPT
               /\ nodes' = nodes
               /\ edges' = edges]_vars

\* the history was cleared while a selected snapshot was on the canvas
C13_Witness ==
    /\ history = <<>>
    /\ serverHistory = <<>>
    /\ activeHistoryId = Null
    /\ prompt = DEFAULT_PROMPT
    /\ ~isClearingHistory
    /\ nodes # <<>>
    /\ edges # <<>>

\* C14: while a clear-all is in progress, the delete action of an entry has no
\* effect: no delete request is issued and deletingId and historyError stay.
C14_DeleteSuppressedWhileClearing ==
    isClearingHistory =>
        \A j \in 1..Len(history) :
            handleDeleteEntry(isClearingHistory, panel, history[j].id) = panel

\* a clear-all is in flight while the list still shows entries with a delete button
C14_Witness ==
    /\ isClearingHistory
    /\ Len(history) > 0
    /\ \E i \in 1..Len(requests) : requests[i].op = "clear" /\ requests[i].stage = "sent"
    /\ \A i \in 1..Len(requests) : requests[i].op # "delete"

\* the ids of a sequence of entities or relationships are pairwise distinct
DistinctIds(list) ==
    \A i, j \in 1..Len(list) : i # j => Get(list[i], "id") # Get(list[j], "id")

\* base with the fields of every incoming entity of that id laid over it, in input order
RECURSIVE MergedOver(_, _, _)
MergedOver(base, incoming, id) ==
    IF incoming = <<>> THEN base
    ELSE MergedOver(IF Get(Head(incoming), "id") = id THEN Merge(base, Head(incoming)) ELSE base,
                    Tail(incoming), id)

\* the ids of incoming that are not in seen, each once, in the order they first occur
RECURSIVE NewIds(_, _)
NewIds(incoming, seen) ==
    IF incoming = <<>> THEN <<>>
    ELSE LET id == Get(Head(incoming), "id")
         IN IF id \in seen THEN NewIds(Tail(incoming), seen)
            ELSE <<id>> \o NewIds(Tail(incoming), seen \cup {id})

C16_UpsertIdempotent ==
    \A incoming \in StoreNodeLists :
        addNodes(addNodes(store, incoming), incoming) = addNodes(store, incoming)

\* a store with entities for which an input that repeats an id changes something
C16_Witness ==
    /\ nodes # <<>>
    /\ \E incoming \in StoreNodeLists :
           /\ Len(incoming) = 2
           /\ Get(incoming[1], "id") = Get(incoming[2], "id")
           /\ incoming[1] # incoming[2]
           /\ addNodes(store, incoming) # store

\* C17: setGraph replaces unconditionally: whatever the store held, afterwards
\* the entities are the given entities in order and the relationships are the
\* given relationships, each normalized, in order; resetGraph leaves both
\* sequences empty; neither changes the tool selection.
C17_ReplaceGraph ==
    [][/\ \A graph \in StoreGraphs :
              SetGraph(graph) =>
                  /\ nodes' = graph.nodes
                  /\ Len(edges') = Len(graph.edges)
                  /\ \A k \in 1..Len(graph.edges) : edges'[k] = normalizeEdge(graph.edges[k])
                  /\ UNCHANGED toolVars
       /\ ResetGraph =>
              /\ nodes' = <<>>
              /\ edges' = <<>>
              /\ UNCHANGED toolVars]_vars

\* the store holds exactly a given graph whose relationships needed normalizing
C17_Witness ==
    \E graph \in StoreGraphs :
        /\ nodes = graph.nodes
        /\ Len(edges) = Len(graph.edges)
        /\ Len(edges) = 2
        /\ edges # graph.edges

\* C18: in every reachable state of the store the entity ids are pairwise
\* distinct and the relationship ids are pairwise distinct.
C18_UniqueIds ==
    DistinctIds(nodes) /\ DistinctIds(edges)

\* C19: in the direct case (any tool selection other than segmentada with '*'
\* and '*') a connection gesture adds exactly one relationship, with source and
\* target as dragged, kind and multiplicities equal to the tool selection, an
\* empty label and an id that no relationship of the graph had; the
\* relationships held before are unchanged.
C19_DirectConnect ==
    [][\A source \in Ids(nodes), target \in Ids(nodes), t2 \in 1..MaxNow :
          (/\ OnConnect(source, target, t2)
           /\ ~isManyToMany(selectedRelationshipKind, selectedSourceMult, selectedTargetMult)) =>
              /\ Len(edges') = Len(edges) + 1
              /\ SubSeq(edges', 1, Len(edges)) = edges
              /\ LET created == edges'[Len(edges')]
                 IN /\ created.id \notin Ids(edges)
                    /\ created.source = source
                    /\ created.target = target
                    /\ created.data.kind = selectedRelationshipKind
                    /\ created.data.sourceMult = selectedSourceMult
                    /\ created.data.targetMult = selectedTargetMult
                    /\ created.label = ""
                    /\ created.data.label = ""
              /\ nodes' = nodes]_vars

\* a lower-case letter or a digit
IsAlphanumeric(c) == c \in CharsOf(LowerLetters) \cup CharsOf(Digits)

\* s from position i on, with every maximal run of characters that are not
\* alphanumeric replaced by one underscore
RECURSIVE collapseNonAlphanumericRuns(_, _)
collapseNonAlphanumericRuns(s, i) ==
    IF i > Len(s) THEN ""
    ELSE IF IsAlphanumeric(CharAt(s, i))
         THEN CharAt(s, i) \o collapseNonAlphanumericRuns(s, i + 1)
         ELSE IF i > 1 /\ ~IsAlphanumeric(CharAt(s, i - 1))
              THEN collapseNonAlphanumericRuns(s, i + 1)
              ELSE "_" \o collapseNonAlphanumericRuns(s, i + 1)

\* the reference function of the claim
referenceIdentifier(label) ==
    LET r == collapseNonAlphanumericRuns(toLowerCase(label), 1)
    IN IF r = "" THEN "relacion" ELSE r

\* C20 (as claimed): the fragment derived from a label is the label in lower
\* case with every maximal run of non-alphanumeric characters replaced by one
\* underscore, or 'relacion' if that is empty.
C20_IdentifierIsReference ==
    identResult # Undefined => identResult = referenceIdentifier(identLabel)

\* the characters of s from position i on that the fragment keeps, read in one
\* pass: a letter, digit or underscore stays (in lower case), the first
\* character of a whitespace run becomes an underscore, all else is dropped
RECURSIVE keptCharacters(_, _)
keptCharacters(s, i) ==
    IF i > Len(s) THEN ""
    ELSE LET c == CharAt(s, i)
             out == IF c \in CharsOf(UpperLetters) \/ c \in CharsOf(LowerLetters) \/ c \in CharsOf(Digits) \/ c = "_"
                    THEN LowerChar(c)
                    ELSE IF IsWhitespace(c) /\ (i = 1 \/ ~IsWhitespace(CharAt(s, i - 1)))
                         THEN "_"
                         ELSE ""
         IN out \o keptCharacters(s, i + 1)

\* C20 (amended): the fragment derived from a label is the label without its
\* leading and trailing whitespace, in lower case, with every maximal run of
\* whitespace replaced by one underscore and every other character that is
\* not a letter, a digit or an underscore removed (a hyphen or a full stop
\* leaves nothing behind), or 'relacion' if that is empty.
C20_IdentifierFragment ==
    identResult # Undefined =>
        /\ identResult = (IF keptCharacters(trim(identLabel), 1) = "" THEN "relacion"
                          ELSE keptCharacters(trim(identLabel), 1))
        /\ identResult # ""
        /\ \A i \in 1..Len(identResult) : IsAlphanumeric(CharAt(identResult, i)) \/ CharAt(identResult, i) = "_"

\* the fragment of a hyphenated label has been derived and holds no underscore
C20_Witness ==
    /\ identLabel = "Orden-Compra"
    /\ identResult = "ordencompra"

----------------------------------------------------------------------------
(* The fallback generator *)

\* whether the word occurs in the text, letter case aside
mentions(text, word) ==
    \E i \in 1..(Len(text) - Len(word) + 1) : toLowerCase(SubSeq(text, i, i + Len(word) - 1)) = word

\* the labels of a graph's entities, in order
EntityLabels(graph) == [i \in 1..Len(graph.nodes) |-> graph.nodes[i].data.label]

\* C22: the fallback generator is a function of the prompt text alone, by
\* case-insensitive substring match: a prompt that contains 'supermercado' or
\* 'supermarket' yields the fixed supermarket graph; otherwise one that contains
\* 'usuario' or 'post' yields the fixed graph of the two entities Usuario and Post
\* and one relationship; otherwise there is no result.  Every call on the same
\* prompt returns the same graph, whatever the canvas, the history list and the
\* active pointer hold.
C22_FallbackOfPromptOnly ==
    \A k \in 1..Len(fallbackResult) :
        LET result == fallbackResult[k]
        IN /\ result = fallbackResult[1]
           /\ IF mentions(fallbackPrompt, "supermercado") \/ mentions(fallbackPrompt, "supermarket")
              THEN result = <<buildSupermarketDiagram>>
              ELSE IF mentions(fallbackPrompt, "usuario") \/ mentions(fallbackPrompt, "post")
                   THEN /\ result = <<buildDefaultDiagram>>
                        /\ EntityLabels(result[1]) = <<"Usuario", "Post">>
                        /\ Len(result[1].edges) = 1
                   ELSE result = <<>>

\* the generator was called twice, over a canvas that is not empty and with a pointer
\* that is set, on a prompt that carries a keyword of each family in mixed letter case
C22_Witness ==
    /\ Len(fallbackResult) = 2
    /\ fallbackPrompt = "posta SuperMarket"
    /\ fallbackResult[2] = <<buildSupermarketDiagram>>
    /\ nodes # <<>>
    /\ activeHistoryId # Null

\* the graph invariants: ids of entities, of relationships and of the columns of one
\* entity are pairwise distinct, relationships are normalized and join entities of the graph's own
GraphInvariants(graph) ==
    /\ DistinctIds(graph.nodes)
    /\ DistinctIds(graph.edges)
    /\ \A i \in 1..Len(graph.nodes) : DistinctIds(graph.nodes[i].data.columns)
    /\ \A j \in 1..Len(graph.edges) :
          /\ normalizeEdge(graph.edges[j]) = graph.edges[j]
          /\ graph.edges[j].source \in Ids(graph.nodes)
          /\ graph.edges[j].target \in Ids(graph.nodes)

\* C23: every graph the fallback generator returns satisfies the graph
\* invariants: entity ids pairwise distinct, relationship ids pairwise distinct,
\* column ids distinct within each entity, every relationship already normalized,
\* and the source and the target of every relationship an entity of the graph.
C23_FallbackGraphsValid ==
    \A k \in 1..Len(fallbackResult) :
        fallbackResult[k] # <<>> => GraphInvariants(fallbackResult[k][1])

\* the generator returned the supermarket graph, with its eight entities (one of them a
\* join entity) and seven relationships
C23_Witness ==
    /\ fallbackResult # <<>>
    /\ fallbackResult[1] # <<>>
    /\ Len(fallbackResult[1][1].nodes) = 8
    /\ Len(fallbackResult[1][1].edges) = 7
    /\ \E i \in 1..8 : "isJoin" \in DOMAIN fallbackResult[1][1].nodes[i].data

----------------------------------------------------------------------------
(* Generation: failures, the busy flag and responses that arrive late *)

\* the step is the catch block of handleGenerate running for request i
GenerationFailedStep(i) ==
    /\ i \in 1..Len(requests)
    /\ requests[i].op = "generate"
    /\ requests[i].stage = "failed"
    /\ requests' = RemoveAt(requests, i)

\* a keyword of the fallback generator occurs in the text
MatchesKeyword(text) ==
    \E word \in {"supermercado", "supermarket", "usuario", "post"} : mentions(text, word)

\* the canvas holds exactly the entities and relationships of the graph
CanvasShows(graph) ==
    /\ nodes' = graph.nodes
    /\ Len(edges') = Len(graph.edges)
    /\ \A j \in 1..Len(graph.edges) : edges'[j].id = graph.edges[j].id

\* C21: whenever the generation call fails with a transport error (service
\* unreachable or any non-2xx response): if the prompt matches a fallback keyword
\* the canvas is replaced by the fallback graph, otherwise a message is shown and
\* the canvas is unchanged; in both cases the history list and the active pointer
\* are unchanged and the busy flag is cleared.
C21_TransportErrorFallsBack ==
    [][\A i \in 1..MaxOverlap :
          GenerationFailedStep(i) =>
              /\ IF MatchesKeyword(requests[i].trimmed)
                 THEN CanvasShows(buildFallbackDiagram(requests[i].trimmed)[1])
                 ELSE error' # Undefined /\ UNCHANGED <<nodes, edges>>
              /\ UNCHANGED <<history, activeHistoryId>>
              /\ isLoading' = FALSE]_vars

\* C21 (as the code has it): when the generation call fails and the error
\* response carries a detail message, that message is shown and the canvas is
\* unchanged, keyword or not; when it fails without a detail (service unreachable,
\* or an error status without one) the canvas is replaced by the fallback graph if
\* the prompt matches a keyword, and otherwise the error's message is shown and the
\* canvas is unchanged.  In every case the history list and the active pointer are
\* unchanged and the busy flag is cleared.
C21_TransportErrorDetailFirst ==
    [][\A i \in 1..MaxOverlap :
          GenerationFailedStep(i) =>
              /\ IF requests[i].err.detail # Undefined
                 THEN error' = requests[i].err.detail /\ UNCHANGED <<nodes, edges>>
                 ELSE IF MatchesKeyword(requests[i].trimmed)
                      THEN CanvasShows(buildFallbackDiagram(requests[i].trimmed)[1])
                      ELSE error' = requests[i].err.message /\ UNCHANGED <<nodes, edges>>
              /\ UNCHANGED <<history, activeHistoryId>>
              /\ isLoading' = FALSE]_vars

\* the service could not be reached for a prompt with a keyword: the canvas shows
\* the Usuario/Post graph, no request is left and the history is as it was loaded
C21_Witness ==
    /\ error = "Backend no disponible; se genero un diseno local."
    /\ Ids(nodes) = {"node-usuario-ai", "node-post-ai"}
    /\ Ids(edges) = {"edge-usuario-post-ai"}
    /\ ~isLoading
    /\ requests = <<>>
    /\ history = Map(serviceList(MaxHistory), mapHistoryItem)

\* C27: the busy flag covers the whole call: while a generation or vision
\* request is in flight isLoading is true, and no second generation or vision
\* request is started while one is in flight, by any control.
C27_BusyCoversCall ==
    LET inFlight == {i \in 1..Len(requests) : requests[i].op \in {"generate", "vision"}}
    IN /\ inFlight # {} => isLoading
       /\ Cardinality(inFlight) <= 1

\* the response being applied belongs to a request that was overtaken by a later
\* request's response, or was issued under another pointer than the present one
StaleResponse(i) ==
    /\ i \in 1..Len(requests)
    /\ requests[i].op = "generate"
    /\ requests[i].stage = "answered"
    /\ ~isEmptyGraph(responseGraph(requests[i].response))
    /\ requests[i].activeHistoryId # Null
    /\ requests[i].overtaken \/ requests[i].activeHistoryId # activeHistoryId

\* C28: responses are applied in arrival order, with no sequence or conversation
\* check: the response to an older request replaces the canvas although a newer
\* request's response, or a later history selection, has been applied already, and
\* the in-place patch goes to the entry that was active when the request was issued.
C28_StaleResponseApplied ==
    [][\A i \in 1..MaxOverlap :
          (StaleResponse(i) /\ \E rnd \in RandomSuffixes : GenerateSucceeded(i, rnd)) =>
              LET graph == responseGraph(requests[i].response)
              IN /\ CanvasShows(graph)
                 /\ Len(history') = Len(history)
                 /\ \A k \in 1..Len(history) :
                       history'[k] = IF history[k].id = requests[i].activeHistoryId
                                     THEN Merge(history[k], [prompt |-> requests[i].trimmed, graph |-> graph])
                                     ELSE history[k]
                 /\ UNCHANGED activeHistoryId]_vars

\* the response to the older of two requests was applied last, after the user had
\* selected another entry: the entry it was issued under carries its prompt and graph
C28_Witness ==
    /\ lastOutcome.op = "generate"
    /\ lastOutcome.branch = "patched"
    /\ lastOutcome.overtaken
    /\ lastOutcome.active # activeHistoryId
    /\ requests = <<>>
    /\ Ids(nodes) = Ids(GraphDangling.nodes)
    /\ \E k \in 1..Len(history) :
          /\ history[k].id = lastOutcome.active
          /\ history[k].graph = GraphDangling
          /\ history[k].prompt = DEFAULT_PROMPT

----------------------------------------------------------------------------
(* Submission: empty results and validation *)

\* C24: a generation response with no nodes and no edges is reported as an error
\* and is not applied: the Graph Store, the history list and the active pointer
\* are what they were.
C24_EmptyResultNotApplied ==
    [][\A i \in 1..MaxRequests :
          (/\ i \in 1..Len(requests)
           /\ requests[i].op = "generate"
           /\ requests[i].stage = "answered"
           /\ requests[i].response.nodes = <<>>
           /\ requests[i].response.edges = <<>>
           /\ requests' = RemoveAt(requests, i))
          => /\ error' = "La respuesta no contiene nodos ni relaciones."
             /\ UNCHANGED <<nodes, edges, history, activeHistoryId>>]_vars

\* the empty result was reported over a canvas that holds a diagram, which is still there
C24_Witness ==
    /\ error = "La respuesta no contiene nodos ni relaciones."
    /\ nodes # <<>>
    /\ edges # <<>>
    /\ requests = <<>>
    /\ ~isLoading

\* the text holds nothing but whitespace
IsBlank(text) == \A i \in 1..Len(text) : IsWhitespace(CharAt(text, i))

\* the file type does not start with "image/"
NotAnImage(fileType) == Len(fileType) < 6 \/ SubSeq(fileType, 1, 6) # "image/"

\* C25: a validation error causes no state mutation and no network request:
\* submitting an empty or whitespace-only prompt, or a file that is not of an image
\* type, only sets the inline error message; Graph Store, history list, active
\* pointer, prompt and busy flag are unchanged.
C25_ValidationErrorOnly ==
    [][(\/ IsBlank(prompt) /\ HandleGenerate
        \/ \E fileType \in FileTypes : NotAnImage(fileType) /\ HandleProcessImage(fileType))
       => /\ error' \in {"Escribe un prompt para generar el diagrama.",
                        "Selecciona un archivo de imagen (png, jpg, svg, etc.)."}
          /\ UNCHANGED <<nodes, edges, history, activeHistoryId, prompt, isLoading, requests,
                         serverHistory>>]_vars

\* a prompt of two spaces was submitted over a canvas that holds a diagram
C25_Witness ==
    /\ prompt = "  "
    /\ error = "Escribe un prompt para generar el diagrama."
    /\ nodes # <<>>
    /\ requests = <<>>
    /\ ~isLoading

----------------------------------------------------------------------------
(* History operations that fail *)

\* the step ends a request of a history operation (list, delete-one, delete-all) that failed
HistoryRequestFailedStep(i) ==
    /\ i \in 1..Len(requests)
    /\ requests[i].op \in {"history", "delete", "clear"}
    /\ requests[i].stage = "failed"
    /\ requests' = RemoveAt(requests, i)

\* the step starts a history operation: its request joins the requests in flight
HistoryOperationStartStep ==
    /\ Len(requests') = Len(requests) + 1
    /\ requests'[Len(requests')].op \in {"history", "delete", "clear"}

\* C26: when a request made by a history operation (list, delete-one,
\* delete-all) fails, the local history list, the active pointer, the prompt and
\* the Graph Store are what they were before the operation started; only the error
\* message and the busy flags change.
C26_HistoryFailureLeavesState ==
    [][((\E i \in 1..MaxHistoryRequests : HistoryRequestFailedStep(i)) \/ HistoryOperationStartStep)
       => /\ UNCHANGED <<history, activeHistoryId, prompt, nodes, edges, error, isLoading>>
          /\ (\E i \in 1..MaxHistoryRequests : HistoryRequestFailedStep(i)) => historyError' # Undefined]_vars

\* a clear-all has failed: the message is shown, the flags are down, and the list, the
\* pointer and the canvas loaded from the selected entry are still there
C26_Witness ==
    /\ historyError = "No se pudo limpiar el historial."
    /\ ~isClearingHistory
    /\ requests = <<>>
    /\ Len(history) = MaxHistory
    /\ activeHistoryId # Null
    /\ nodes # <<>>

----------------------------------------------------------------------------
(* The edit buffers of the canvas *)

\* the step opens the table editor or the relationship editor
OpenBufferStep ==
    \/ editingNode = <<>> /\ editingNode' # <<>>
    \/ editingEdge = <<>> /\ editingEdge' # <<>>

\* the step is Save in the table editor
SaveTableStep(tableName, columns) == HandleSaveTable(tableName, columns)

\* the labels and the column lists Save can carry for the open buffer
SavedLabels == {savedTableName(input) : input \in TableNameInputs}
SavedColumns == IF editingNode # <<>> THEN ColumnEdits(editingNode[1].data.columns, now) ELSE {}

\* C29: opening an edit buffer (on an entity, on a relationship, or through
\* 'new table') and Cancel never change the Graph Store.  Save on a buffer whose
\* entity id is in the graph changes only that entity; Save on a buffer whose id
\* is not in the graph adds exactly one entity, with the buffered label and
\* columns.  After Save or Cancel the buffer is closed.
C29_EditBuffer ==
    [][/\ (OpenBufferStep \/ HandleCloseEditor \/ HandleCloseRelationshipEditor)
            => UNCHANGED <<nodes, edges>>
       /\ (HandleCloseEditor => editingNode' = <<>> /\ ~isEditorOpen')
       /\ (HandleCloseRelationshipEditor => editingEdge' = <<>> /\ ~isRelationshipEditorOpen')
       /\ (editingEdge # <<>> /\ editingEdge' # editingEdge /\ ~OpenBufferStep)
            => editingEdge' = <<>> /\ ~isRelationshipEditorOpen'
       /\ \A tableName \in SavedLabels, columns \in SavedColumns :
            SaveTableStep(tableName, columns) =>
               LET id == editingNode[1].id
               IN /\ edges' = edges
                  /\ editingNode' = <<>>
                  /\ ~isEditorOpen'
                  /\ IF id \in Ids(nodes)
                     THEN /\ Len(nodes') = Len(nodes)
                          /\ \A k \in 1..Len(nodes) :
                                IF nodes[k].id = id
                                THEN /\ nodes'[k].id = id
                                     /\ nodes'[k].data.label = tableName
                                     /\ nodes'[k].data.columns = columns
                                ELSE nodes'[k] = nodes[k]
                     ELSE /\ Len(nodes') = Len(nodes) + 1
                          /\ SubSeq(nodes', 1, Len(nodes)) = nodes
                          /\ nodes'[Len(nodes')].id = id
                          /\ nodes'[Len(nodes')].data = [label |-> tableName, columns |-> columns]]_vars

\* a table made with "new table" was saved as Venta with a second column next to the
\* join entity's graph, and the buffer is closed
C29_Witness ==
    /\ editingNode = <<>>
    /\ ~isEditorOpen
    /\ \E k \in 1..Len(nodes) :
          /\ nodes[k].id \notin Ids(GraphWithJoin.nodes)
          /\ nodes[k].data.label = "Venta"
          /\ Len(nodes[k].data.columns) = 2
    /\ \E k \in 1..Len(nodes) : "isJoin" \in DOMAIN nodes[k].data

\* the label and columns arguments of updateNodeData that the table editor can send
EntityEdits ==
    {[label |-> label, columns |-> columns] :
        label \in {"Venta", "Tabla"},
        columns \in {<<>>, <<Column("c1", "id", "INT", TRUE, FALSE)>>}}

\* the fields of an entity's data bundle other than label and columns
OtherData(node) == [k \in (DOMAIN node.data) \ {"label", "columns"} |-> node.data[k]]

\* C30: updateNodeData(id, data) is a partial update: it changes only the label
\* and the columns of the entity with that id and leaves that entity's id,
\* position, isJoin and joinOf, every other entity and every relationship
\* unchanged; if no entity has that id the store is unchanged.  In particular a
\* join entity in the graph is still marked isJoin, with its joinOf pair, after its
\* label or columns are edited and saved.
C30_PartialUpdate ==
    /\ \A id \in Ids(nodes) \cup {"zz"}, data \in EntityEdits :
          LET after == updateNodeData(store, id, data)
          IN /\ after.edges = edges
             /\ Len(after.nodes) = Len(nodes)
             /\ id \notin Ids(nodes) => after = store
             /\ \A k \in 1..Len(nodes) :
                   IF nodes[k].id = id
                   THEN /\ after.nodes[k].id = id
                        /\ after.nodes[k].position = nodes[k].position
                        /\ after.nodes[k].type = nodes[k].type
                        /\ after.nodes[k].data.label = data.label
                        /\ after.nodes[k].data.columns = data.columns
                        /\ OtherData(after.nodes[k]) = OtherData(nodes[k])
                   ELSE after.nodes[k] = nodes[k]
    /\ \A k \in 1..Len(nodes), data \in EntityEdits :
          "isJoin" \in DOMAIN nodes[k].data =>
             LET saved == handleSaveTable(store, nodes[k], data.label, data.columns).nodes[k]
             IN /\ saved.data.isJoin = nodes[k].data.isJoin
                /\ saved.data.joinOf = nodes[k].data.joinOf
                /\ saved.data.label = data.label

----------------------------------------------------------------------------
(* useAuthStore: the session store *)

\* the user objects of authentication responses and the answers of the service:
\* with token, with access_token, with an empty token next to an access_token,
\* with a user and no token, with an empty token, and with user: null
RawUsers == {[id |-> 1, email |-> "ana@uml.bo", created_at |-> "2025-01-01"],
             [id |-> 2, email |-> "luis@uml.bo"]}

AuthResponses ==
    {[token |-> "t1", user |-> <<raw>>] : raw \in RawUsers}
    \cup {[access_token |-> "t2", token_type |-> "bearer"],
          [token |-> "", access_token |-> "t2", user |-> <<>>],
          [token |-> "", user |-> <<CHOOSE raw \in RawUsers : raw.id = 1>>],
          [token_type |-> "bearer", user |-> <<CHOOSE raw \in RawUsers : raw.id = 2>>]}

\* mapUser; raw is <<>> for null or undefined
mapUser(raw) ==
    IF raw = <<>> THEN <<>>
    ELSE <<[id |-> raw[1].id, email |-> raw[1].email,
            createdAt |-> Coalesce(raw[1], "created_at", "")]>>

\* the token setFromResponse takes from the response (<<>> = null)
responseToken(response) ==
    IF "token" \in DOMAIN response /\ response.token # "" THEN <<response.token>>
    ELSE IF "access_token" \in DOMAIN response /\ response.access_token # "" THEN <<response.access_token>>
    ELSE <<>>

\* setAuthToken: the Authorization header after the call
setAuthToken(header, tok) == IF tok # <<>> /\ tok[1] # "" THEN <<"Bearer " \o tok[1]>> ELSE <<>>

\* the store, the header and the error thrown, as one record
Session(tok, usr, auth, header, thrown) ==
    [token |-> tok, user |-> usr, isAuthenticated |-> auth, authorization |-> header, thrown |-> thrown]

session == Session(token, user, isAuthenticated, authorization, "")

\* variant: the store is written before the token is looked at
setFromResponse_mut(st, response) ==
    LET tok == responseToken(response)
        usr == mapUser(IF "user" \in DOMAIN response THEN response.user ELSE <<>>)
    IN Session(tok, usr, TRUE, setAuthToken(st.authorization, tok),
               IF tok = <<>> THEN "La respuesta de autenticación no contiene un token." ELSE "")

\* setFromResponse: the session after the call, with what it threw
setFromResponse(st, response) ==
    LET tok == responseToken(response)
        usr == mapUser(IF "user" \in DOMAIN response THEN response.user ELSE <<>>)
    IN IF tok = <<>>
       THEN Merge(st, [thrown |-> "La respuesta de autenticación no contiene un token."])
       ELSE Session(tok, usr, TRUE, setAuthToken(st.authorization, tok), "")

\* logout: the session after the call
logout(st) == Session(<<>>, <<>>, FALSE, setAuthToken(st.authorization, <<>>), "")

SetSession(after) ==
    /\ token' = after.token
    /\ user' = after.user
    /\ isAuthenticated' = after.isAuthenticated
    /\ authorization' = after.authorization
    /\ authError' = after.thrown

AuthFrame == UNCHANGED <<storeVars, canvasVars, now, chatVars, normVars, identVars, fallbackVars>>

\* login / register up to the await of api.post
Login ==
    /\ Len(authRequests) < MaxAuthRequests
    /\ authRequests' = Append(authRequests, [op |-> "login", stage |-> "sent"])
    /\ UNCHANGED <<sessionVars, authorization, authError>>
    /\ AuthFrame

Register ==
    /\ Len(authRequests) < MaxAuthRequests
    /\ authRequests' = Append(authRequests, [op |-> "register", stage |-> "sent"])
    /\ UNCHANGED <<sessionVars, authorization, authError>>
    /\ AuthFrame

\* the authentication service answers POST /auth/login or /auth/register
ServerAuth(i, response) ==
    /\ i \in 1..Len(authRequests)
    /\ authRequests[i].stage = "sent"
    /\ authRequests' = [authRequests EXCEPT ![i] = Merge(@, [stage |-> "answered", data |-> response])]
    /\ UNCHANGED <<sessionVars, authorization, authError>>
    /\ AuthFrame

\* the authentication service rejects the call
ServerAuthFail(i) ==
    /\ i \in 1..Len(authRequests)
    /\ authRequests[i].stage = "sent"
    /\ authRequests' = [authRequests EXCEPT ![i] = Merge(@, [stage |-> "failed"])]
    /\ UNCHANGED <<sessionVars, authorization, authError>>
    /\ AuthFrame

\* login / register after the await: get().setFromResponse(data)
AuthAnswered(i) ==
    /\ i \in 1..Len(authRequests)
    /\ authRequests[i].stage = "answered"
    /\ SetSession(setFromResponse(session, authRequests[i].data))
    /\ authRequests' = RemoveAt(authRequests, i)
    /\ AuthFrame

\* login / register when api.post rejects: the promise rejects, the store is not touched
AuthRejected(i) ==
    /\ i \in 1..Len(authRequests)
    /\ authRequests[i].stage = "failed"
    /\ authError' = "Request failed with status code 401"
    /\ authRequests' = RemoveAt(authRequests, i)
    /\ UNCHANGED <<sessionVars, authorization>>
    /\ AuthFrame

SetFromResponse(response) ==
    /\ SetSession(setFromResponse(session, response))
    /\ UNCHANGED authRequests
    /\ AuthFrame

Logout ==
    /\ SetSession(logout(session))
    /\ UNCHANGED authRequests
    /\ AuthFrame

NextAuth ==
    \/ Login
    \/ Register
    \/ \E i \in 1..MaxAuthRequests, response \in AuthResponses : ServerAuth(i, response)
    \/ \E i \in 1..MaxAuthRequests : ServerAuthFail(i)
    \/ \E i \in 1..MaxAuthRequests : AuthAnswered(i)
    \/ \E i \in 1..MaxAuthRequests : AuthRejected(i)
    \/ \E response \in AuthResponses : SetFromResponse(response)
    \/ Logout

SpecAuth == Init /\ [][NextAuth]_vars

\* the step is a setFromResponse, from login, register or a direct call, on this response
SetFromResponseStep(response) ==
    \/ SetFromResponse(response)
    \/ \E i \in 1..Len(authRequests) : authRequests[i].stage = "answered"
                                       /\ authRequests[i].data = response /\ AuthAnswered(i)

\* C40: in the session store, after any sequence of login, register,
\* setFromResponse and logout, isAuthenticated is true exactly when token is
\* non-null; an authentication response that carries neither token nor
\* access_token raises an error and leaves token, user and isAuthenticated
\* unchanged; logout resets all three to their initial values.
C40_SessionStore ==
    /\ [](isAuthenticated <=> token # <<>>)
    /\ [][/\ \A response \in AuthResponses :
                (SetFromResponseStep(response) /\ DOMAIN response \cap {"token", "access_token"} = {})
                   => (UNCHANGED sessionVars /\ authError' # "")
          /\ Logout => (token' = <<>> /\ user' = <<>> /\ isAuthenticated' = FALSE)]_vars

\* somebody signed in with an access_token and no user, and a later response
\* without a token was refused
C40_Witness ==
    /\ isAuthenticated
    /\ token = <<"t2">>
    /\ user = <<>>
    /\ authorization = <<"Bearer t2">>
    /\ authError = "La respuesta de autenticación no contiene un token."

----------------------------------------------------------------------------
(* ChatPanel: a new conversation *)

\* what a new conversation leaves alone besides the error message
NewConversationFrame ==
    UNCHANGED <<storeVars, canvasVars, now, isLoading, history, isHistoryLoading, historyError,
                adminVars, requests, lastOutcome, serverHistory, serverNextId, normVars,
                identVars, fallbackVars, authVars>>

\* the texts the user can type before the next generation
NextPrompts == PromptInputs \cup {DEFAULT_PROMPT}

\* C31 (as stated): starting a new conversation sets the prompt buffer to empty
\* and the pointer to null and changes nothing else.
C31_NewConversationOnly ==
    [][HandleNewConversation =>
          /\ prompt' = ""
          /\ activeHistoryId' = Null
          /\ NewConversationFrame
          /\ error' = error]_vars

\* C31: starting a new conversation sets the prompt buffer to empty, the pointer
\* to null and the error message to none, and changes nothing else: the Graph
\* Store and the history list are exactly as before, and a generation sent from
\* the state it leaves carries no history_id.
C31_NewConversation ==
    [][HandleNewConversation =>
          /\ prompt' = ""
          /\ activeHistoryId' = Null
          /\ error' = Undefined
          /\ NewConversationFrame
          /\ \A text \in NextPrompts :
                "history_id" \notin DOMAIN generatePayload(trim(text), nodes', edges', activeHistoryId')]_vars

\* a new conversation was started from a selected entry: the prompt is empty and
\* the pointer is null while the list still has entries and the canvas its graph
C31_Witness ==
    /\ prompt = ""
    /\ activeHistoryId = Null
    /\ Len(history) > 0
    /\ Len(nodes) > 0
    /\ requests = <<>>

----------------------------------------------------------------------------
(* Graph Store: the multiplicities of stored relationships *)

\* the closed set of multiplicity labels
MultiplicitySet == {Multiplicities[i] : i \in 1..Len(Multiplicities)}

\* the multiplicity a stored relationship carries on one of its ends
storedMult(edge, end) == IF "data" \in DOMAIN edge THEN Get(edge.data, end) ELSE Undefined

\* C32: in every reachable state of the Graph Store, every relationship's
\* sourceMult and targetMult is a member of the closed set
\* {1, 0..1, *, 1..*, 0..*}, also for relationships that entered through an
\* externally supplied graph or an incremental patch.
C32_MultiplicitiesInClosedSet ==
    \A i \in 1..Len(edges) :
        /\ storedMult(edges[i], "sourceMult") \in MultiplicitySet
        /\ storedMult(edges[i], "targetMult") \in MultiplicitySet

----------------------------------------------------------------------------
(* DiagramCanvas: column ids of the entities the editor makes *)

\* the column ids of an entity are pairwise distinct
UniqueColumnIds(node) ==
    \A i, j \in 1..Len(node.data.columns) :
        i # j => node.data.columns[i].id # node.data.columns[j].id

\* the entity was synthesized by a many-to-many connection gesture
IsJoinEntity(node) ==
    /\ "data" \in DOMAIN node
    /\ "isJoin" \in DOMAIN node.data
    /\ "columns" \in DOMAIN node.data

\* C33: column ids are unique within their owning entity for every entity the
\* editor creates; here for the synthesized join entity, after every connection
\* gesture, including one whose source and target are the same entity.
C33_UniqueColumnIds ==
    \A k \in 1..Len(nodes) : IsJoinEntity(nodes[k]) => UniqueColumnIds(nodes[k])

----------------------------------------------------------------------------
(* Graph Store: the nested bundle of a stored relationship *)

\* the nested bundle of the relationship repeats its top-level id and ends
SelfConsistent(edge) ==
    /\ "data" \in DOMAIN edge
    /\ \A k \in {"id", "source", "target"} :
          k \in DOMAIN edge => (k \in DOMAIN edge.data /\ edge.data[k] = edge[k])

\* C34: every relationship in the Graph Store carries a self-consistent
\* attribute set: in every reachable state its nested bundle agrees with its
\* top-level fields (data.id = id, data.source = source, data.target = target),
\* whatever path the relationship came in by.
C34_BundleAgreesWithTopLevel ==
    \A i \in 1..Len(edges) : SelfConsistent(edges[i])

----------------------------------------------------------------------------
(* ChatPanel: the pointer and the local history list *)

\* the local history list has an entry with this id
Listed(id) == \E j \in 1..Len(history) : history[j].id = id

\* C35: whenever no history or generation request is in flight, the active
\* pointer is either null or the id of an entry present in the local history
\* list, also after sequences in which a history refetch fails.
C35_PointerIsListed ==
    requests = <<>> => (activeHistoryId = Null \/ Listed(activeHistoryId))

----------------------------------------------------------------------------
(* ChatPanel: the pointer and the canvas *)

\* after the step the canvas holds the graph stored with entry p of the list
CanvasHoldsEntry(p) ==
    \E j \in 1..Len(history') :
        /\ history'[j].id = p
        /\ \E rnd \in RandomSuffixes :
              Graph(nodes', edges') = applyGraphToCanvas(store, history'[j].graph, rnd)

\* C36: the active pointer never moves to an entry whose graph is not on the
\* canvas: every step that changes the pointer to a non-null id p leaves the
\* canvas holding the graph that belongs to p, also on the initial history load
\* and on the fallback after the active entry was deleted.
C36_PointerMovesWithGraph ==
    [][(activeHistoryId' # activeHistoryId /\ activeHistoryId' # Null)
          => CanvasHoldsEntry(activeHistoryId')]_vars

----------------------------------------------------------------------------
(* ChatPanel: responses that arrive after a clear-all *)

\* the request in slot i was in flight when a clear-all completed
StartedBeforeClear(i) ==
    /\ i \in 1..Len(requests)
    /\ "beforeClear" \in DOMAIN requests[i]

\* C37: once a clear-all has succeeded, a history fetch that was started before
\* it completed cannot repopulate the list or move the pointer when its
\* response arrives afterwards: the list stays empty and the pointer null.
C37_ClearedStaysCleared ==
    [][\A i \in 1..MaxHistoryRequests :
          (StartedBeforeClear(i) /\ history = <<>> /\ activeHistoryId = Null
           /\ LoadHistorySucceeded(i))
             => (history' = <<>> /\ activeHistoryId' = Null)]_vars

----------------------------------------------------------------------------
(* DiagramCanvas: a graph that arrives while the table editor is open *)

\* the open buffer was not made by "new table", so it was opened on an entity of the graph
OpenedOnExistingEntity ==
    /\ editingNode # <<>>
    /\ \A t \in 1..MaxNow, x \in RandomXs, y \in RandomYs : editingNode[1] # newTableNode(t, x, y)

\* C38: saving an edit buffer that was opened on an existing entity never adds
\* an entity to the graph, also when the graph was replaced while the buffer was
\* open.
C38_SaveExistingAddsNothing ==
    [][\A tableName \in SavedLabels, columns \in SavedColumns :
          (OpenedOnExistingEntity /\ HandleSaveTable(tableName, columns))
             => Len(nodes') = Len(nodes)]_vars

----------------------------------------------------------------------------
(* ChatPanel: the busy flags *)

\* C39: provided every network request eventually completes, every busy flag
\* that gets set (isLoading, isHistoryLoading, deletingId, isClearingHistory) is
\* eventually cleared, on every path: success, empty result, error with detail,
\* fallback, and failure of the nested history refetch.
C39_BusyFlagsCleared ==
    /\ isLoading ~> ~isLoading
    /\ isHistoryLoading ~> ~isHistoryLoading
    /\ (deletingId # Null) ~> (deletingId = Null)
    /\ isClearingHistory ~> ~isClearingHistory

\* a generation was answered and the refetch it awaited failed: nothing is in
\* flight and no busy flag is set
C39_Witness ==
    /\ lastOutcome.op = "generate"
    /\ lastOutcome.branch = "refetched"
    /\ historyError = "No se pudo cargar el historial."
    /\ requests = <<>>
    /\ ~isLoading /\ ~isHistoryLoading /\ deletingId = Null /\ ~isClearingHistory

====
